---- MODULE Spec2Model ----
(***************************************************************************)
(* Matching-and-pricing engine of the arbitrage visualizer.                *)
(*                                                                         *)
(*   - the fee model and the ROI calculator of the Sentinel page           *)
(*     (client/src/pages/sentinel.tsx),                                    *)
(*   - the entity extractor, the event pattern matcher, the similarity     *)
(*     scorer and the opportunity finder of the server                     *)
(*     (server/market-api.ts).                                             *)
(*                                                                         *)
(* Numbers. The code computes in IEEE doubles; the model computes the same *)
(* expressions exactly. A price of the calculator is an integer number of *)
(* cents (0.52 is 52), a price of a listing an integer number of           *)
(* hundredths of a cent (0.5005 is 5005), an amount of money an integer    *)
(* number of micro-dollars (1 dollar is 1000000), and a ratio such as an   *)
(* ROI a fraction in lowest terms.                                         *)
(* Titles and ids are strings; the regular expressions the code applies to *)
(* them are computed character by character.                               *)
(***************************************************************************)
EXTENDS Integers, Sequences, FiniteSets, TLC

VARIABLES
    roiArgs,    \* arguments of the ROI calculator call under way
    roiResult,  \* what the call returned (and the locals it returned it from)
    simArgs,    \* the two listings handed to calculateSimilarity
    simResult,  \* { score, reason } it returned
    arbArgs,    \* markets and minRoi handed to findArbitrageOpportunities
    arbResult,  \* the opportunity list it returned
    fetchState, \* the market cache, the clock and the fetch under way
    browser     \* the state of the Sentinel page's market browser

vars ==
    <<roiArgs, roiResult, simArgs, simResult, arbArgs, arbResult, fetchState,
      browser>>

\* A component that is not running holds this value.
Idle == [fn |-> "idle"]

----------------------------------------------------------------------------
(* Exact arithmetic *)

Abs(x) == IF x < 0 THEN -x ELSE x

Max(x, y) == IF x >= y THEN x ELSE y

Min(x, y) == IF x <= y THEN x ELSE y

RECURSIVE GCD(_, _)
GCD(a, b) == IF b = 0 THEN a ELSE GCD(b, a % b)

\* The fraction n/d (d > 0) in lowest terms.
Rat(n, d) ==
    LET g == GCD(Abs(n), d)
    IN  [num |-> n \div g, den |-> d \div g]

RatZero == [num |-> 0, den |-> 1]

\* r * k for an integer k > 0, in lowest terms.
RatTimes(r, k) ==
    LET g == GCD(k, r.den)
    IN  [num |-> r.num * (k \div g), den |-> r.den \div g]

\* a <= b for fractions with positive denominators, compared by their
\* integer parts first so that the cross products stay small.
RatLeq(a, b) ==
    LET fa == a.num \div a.den
        fb == b.num \div b.den
    IN  IF fa # fb THEN fa < fb
        ELSE (a.num % a.den) * b.den <= (b.num % b.den) * a.den

\* A maximum that is its first argument.
RatMaxFirst(a, b) == a

\* Math.max(a, b) for fractions
RatMax(a, b) == IF RatLeq(b, a) THEN a ELSE b

----------------------------------------------------------------------------
(* Strings and the regular expressions the code applies to them *)

UpperCase == "ABCDEFGHIJKLMNOPQRSTUVWXYZ"

LowerCase == "abcdefghijklmnopqrstuvwxyz"

Digits == "0123456789"

\* The characters of a string, as a set of one-character strings.
CharSet(s) == {SubSeq(s, i, i) : i \in 1 .. Len(s)}

\* \w and \s of the regular expressions (titles hold no tab or line break).
WordChars == CharSet(UpperCase) \cup CharSet(LowerCase) \cup CharSet(Digits) \cup {"_"}

WhiteSpace == {" "}

DigitChars == CharSet(Digits)

\* The character at position i, "" outside the string.
Ch(s, i) == IF i >= 1 /\ i <= Len(s) THEN SubSeq(s, i, i) ELSE ""

UpperChars == CharSet(UpperCase)

\* The lower-case letter of each upper-case letter.
lowerOf ==
    [c \in UpperChars |->
        LET i == CHOOSE k \in 1 .. Len(UpperCase) : SubSeq(UpperCase, k, k) = c
        IN  SubSeq(LowerCase, i, i)]

lowerChar(c) == IF c \in UpperChars THEN lowerOf[c] ELSE c

\* The least element of a set of positions, 0 if the set is empty.
least(set) == IF set = {} THEN 0 ELSE CHOOSE i \in set : \A j \in set : i <= j

\* String.prototype.toLowerCase: every upper-case letter is replaced, from
\* left to right.
RECURSIVE toLowerCase(_)
toLowerCase(s) ==
    IF s = "" THEN ""
    ELSE LET i == least({k \in 1 .. Len(s) : SubSeq(s, k, k) \in UpperChars})
         IN  IF i = 0 THEN s
             ELSE SubSeq(s, 1, i - 1) \o lowerOf[SubSeq(s, i, i)]
                      \o toLowerCase(SubSeq(s, i + 1, Len(s)))

\* The literal w stands at position i of s.
matchAt(s, i, w) ==
    /\ i >= 1
    /\ i + Len(w) - 1 <= Len(s)
    /\ SubSeq(s, i, i + Len(w) - 1) = w

\* String.prototype.includes, and a regular expression that is one literal.
includes(s, w) ==
    LET n == Len(w)
    IN  \E i \in 1 .. (Len(s) - n + 1) : SubSeq(s, i, i + n - 1) = w

\* \b before position i: exactly one of the characters i-1 and i is a \w.
boundary(s, i) == (Ch(s, i - 1) \in WordChars) # (Ch(s, i) \in WordChars)

\* new RegExp(`\\b${w}\\b`).test(s) for a literal w.
wholeWord(s, w) ==
    LET n == Len(w)
    IN  \E i \in 1 .. (Len(s) - n + 1) :
            SubSeq(s, i, i + n - 1) = w /\ boundary(s, i) /\ boundary(s, i + n)

\* The literal w followed by \b somewhere in s (patterns such as /r\b/).
endsWord(s, w) ==
    LET n == Len(w)
    IN  \E i \in 1 .. (Len(s) - n + 1) :
            SubSeq(s, i, i + n - 1) = w /\ boundary(s, i + n)

\* The least position >= from where w stands in s, 0 if there is none.
indexOf(s, w, from) ==
    least({i \in from .. (Len(s) - Len(w) + 1) : SubSeq(s, i, i + Len(w) - 1) = w})

\* The literals of pieces occur in s from position from on, in this order
\* and without overlap: the regular expression p1.*p2.*...
RECURSIVE inOrder(_, _, _)
inOrder(s, pieces, from) ==
    IF pieces = <<>> THEN TRUE
    ELSE LET i == indexOf(s, Head(pieces), from)
         IN  i # 0 /\ inOrder(s, Tail(pieces), i + Len(Head(pieces)))

\* RegExp.prototype.test for a case-insensitive expression given as its
\* alternatives, each a sequence of lower-case literals joined by ".*", on a
\* text that has been put in lower case.
test(alternatives, lower) ==
    \E k \in 1 .. Len(alternatives) : inOrder(lower, alternatives[k], 1)

\* The last position of the longest run of digits that starts at i (i - 1 if
\* the character at i is no digit).
RECURSIVE digitsEnd(_, _)
digitsEnd(s, i) ==
    IF Ch(s, i) \in DigitChars THEN digitsEnd(s, i + 1) ELSE i - 1

\* The first position >= i that holds no white space.
RECURSIVE skipSpaces(_, _)
skipSpaces(s, i) ==
    IF Ch(s, i) \in WhiteSpace THEN skipSpaces(s, i + 1) ELSE i

\* /\b(202[4-9]|203[0-9])\b/ at position i: the last position of the match,
\* 0 if there is none.
yearEnd(s, i) ==
    IF /\ boundary(s, i)
       /\ \/ matchAt(s, i, "202") /\ Ch(s, i + 3) \in {"4", "5", "6", "7", "8", "9"}
          \/ matchAt(s, i, "203") /\ Ch(s, i + 3) \in DigitChars
       /\ boundary(s, i + 4)
    THEN i + 3 ELSE 0

\* The tail %?k?\b of the number expression after position e, greedy first:
\* "%k", "%", "k", nothing. The last position of the match, 0 if none.
numberTail(s, e) ==
    IF Ch(s, e + 1) = "%" /\ Ch(s, e + 2) = "k" /\ boundary(s, e + 3) THEN e + 2
    ELSE IF Ch(s, e + 1) = "%" /\ boundary(s, e + 2) THEN e + 1
    ELSE IF Ch(s, e + 1) = "k" /\ boundary(s, e + 2) THEN e + 1
    ELSE IF boundary(s, e + 1) THEN e
    ELSE 0

\* /\b\d+(?:\.\d+)?%?k?\b/ at position i: with the fraction first, then
\* without it.
numberEnd(s, i) ==
    LET d == digitsEnd(s, i)
        f == IF Ch(s, d + 1) = "." THEN digitsEnd(s, d + 2) ELSE d
    IN  IF ~boundary(s, i) \/ d < i THEN 0
        ELSE IF f > d + 1 /\ numberTail(s, f) # 0 THEN numberTail(s, f)
        ELSE numberTail(s, d)

\* /\b(q[1-4]|quarter\s*[1-4]|first\s*quarter|second\s*quarter|third\s*quarter
\* |fourth\s*quarter)\b/ at position i.
quarterEnd(s, i) ==
    LET oneToFour == {"1", "2", "3", "4"}
        ordinal(w) == IF matchAt(s, i, w) /\ matchAt(s, skipSpaces(s, i + Len(w)), "quarter")
                      THEN skipSpaces(s, i + Len(w)) + 6 ELSE 0
        e == IF matchAt(s, i, "q") /\ Ch(s, i + 1) \in oneToFour THEN i + 1
             ELSE IF matchAt(s, i, "quarter") /\ Ch(s, skipSpaces(s, i + 7)) \in oneToFour
             THEN skipSpaces(s, i + 7)
             ELSE IF ordinal("first") # 0 THEN ordinal("first")
             ELSE IF ordinal("second") # 0 THEN ordinal("second")
             ELSE IF ordinal("third") # 0 THEN ordinal("third")
             ELSE ordinal("fourth")
    IN  IF boundary(s, i) /\ e # 0 /\ boundary(s, e + 1) THEN e ELSE 0

\* The alternatives of the month expression, in its order.
monthNames ==
    <<"january", "february", "march", "april", "may", "june", "july", "august",
      "september", "october", "november", "december", "jan", "feb", "mar", "apr",
      "jun", "jul", "aug", "sep", "sept", "oct", "nov", "dec">>

\* The end of the first of the alternatives that stands at i followed by \b.
firstAlternativeEnd(s, i, alternatives) ==
    LET k == least({a \in 1 .. Len(alternatives) :
                        /\ matchAt(s, i, alternatives[a])
                        /\ boundary(s, i + Len(alternatives[a]))})
    IN  IF k = 0 THEN 0 ELSE i + Len(alternatives[k]) - 1

\* /\b(january|...|dec)\b/ at position i.
monthEnd(s, i) ==
    IF boundary(s, i) THEN firstAlternativeEnd(s, i, monthNames) ELSE 0

matchEnd(kind, s, i) ==
    CASE kind = "year" -> yearEnd(s, i)
      [] kind = "number" -> numberEnd(s, i)
      [] kind = "quarter" -> quarterEnd(s, i)
      [] kind = "month" -> monthEnd(s, i)

\* String.prototype.match with a global expression: the matches from left to
\* right, each search starting after the previous match.
RECURSIVE matchAll(_, _, _)
matchAll(kind, s, pos) ==
    LET i == least({k \in pos .. Len(s) : matchEnd(kind, s, k) # 0})
    IN  IF i = 0 THEN <<>>
        ELSE <<SubSeq(s, i, matchEnd(kind, s, i))>>
                 \o matchAll(kind, s, matchEnd(kind, s, i) + 1)

\* String.prototype.replace with a global expression that is an alternation
\* of literals: at each position the first alternative that stands there.
firstLiteralAt(s, i, alternatives) ==
    LET k == least({a \in 1 .. Len(alternatives) : matchAt(s, i, alternatives[a])})
    IN  IF k = 0 THEN "" ELSE alternatives[k]

\* The text from position i on, with every match replaced: the search goes
\* on after each match.
RECURSIVE replaceFrom(_, _, _, _)
replaceFrom(s, i, alternatives, replacement) ==
    IF i > Len(s) THEN ""
    ELSE LET j == least({k \in i .. Len(s) : firstLiteralAt(s, k, alternatives) # ""})
         IN  IF j = 0 THEN SubSeq(s, i, Len(s))
             ELSE SubSeq(s, i, j - 1) \o replacement
                      \o replaceFrom(s, j + Len(firstLiteralAt(s, j, alternatives)),
                                     alternatives, replacement)

replace(s, alternatives, replacement) == replaceFrom(s, 1, alternatives, replacement)

\* .replace(/[^\w\s]/g, ' ')
RECURSIVE blankPunctuation(_)
blankPunctuation(s) ==
    IF s = "" THEN ""
    ELSE LET i == least({k \in 1 .. Len(s) :
                             SubSeq(s, k, k) \notin WordChars \cup WhiteSpace})
         IN  IF i = 0 THEN s
             ELSE SubSeq(s, 1, i - 1) \o " "
                      \o blankPunctuation(SubSeq(s, i + 1, Len(s)))

\* .replace(/\s+/g, ' ') from position i on
RECURSIVE collapseSpaces(_, _)
collapseSpaces(s, i) ==
    IF i > Len(s) THEN ""
    ELSE LET j == least({k \in i .. Len(s) : SubSeq(s, k, k) \in WhiteSpace})
         IN  IF j = 0 THEN SubSeq(s, i, Len(s))
             ELSE SubSeq(s, i, j - 1) \o " " \o collapseSpaces(s, skipSpaces(s, j))

\* String.prototype.trim
RECURSIVE trimEnd(_)
trimEnd(s) ==
    IF s # "" /\ Ch(s, Len(s)) \in WhiteSpace THEN trimEnd(SubSeq(s, 1, Len(s) - 1))
    ELSE s

trim(s) == LET t == trimEnd(s) IN SubSeq(t, skipSpaces(t, 1), Len(t))

\* String.prototype.split(/\s+/) from position i on
RECURSIVE splitFrom(_, _)
splitFrom(s, i) ==
    IF i > Len(s) THEN <<"">>
    ELSE LET j == least({k \in i .. Len(s) : SubSeq(s, k, k) \in WhiteSpace})
         IN  IF j = 0 THEN <<SubSeq(s, i, Len(s))>>
             ELSE <<SubSeq(s, i, j - 1)>> \o splitFrom(s, skipSpaces(s, j))

split(s) == splitFrom(s, 1)

\* The elements of a sequence, and the sequence without repeated elements
\* (the insertion order of a Set).
Range(q) == {q[i] : i \in 1 .. Len(q)}

RECURSIVE unique(_)
unique(q) ==
    IF q = <<>> THEN <<>>
    ELSE LET front == unique(SubSeq(q, 1, Len(q) - 1))
         IN  IF q[Len(q)] \in Range(front) THEN front ELSE Append(front, q[Len(q)])

\* Array.prototype.join
RECURSIVE join(_, _)
join(q, separator) ==
    IF q = <<>> THEN ""
    ELSE IF Len(q) = 1 THEN q[1]
    ELSE q[1] \o separator \o join(Tail(q), separator)

----------------------------------------------------------------------------
(* Event pattern matcher: market-api.ts, SPECIFIC_EVENT_PATTERNS, extractEvents *)

\* Each regular expression is the sequence of its alternatives, and each
\* alternative the sequence of literals that ".*" joins: /100.*k|100,?000/i is
\* <<<<"100", "k">>, <<"100000">>, <<"100,000">>>>.
SPECIFIC_EVENT_PATTERNS ==
    <<
       [patterns |-> << <<<<"recession">>>>, <<<<"2025">>>> >>, event |-> "recession-2025"],
       [patterns |-> << <<<<"recession">>>>, <<<<"2026">>>> >>, event |-> "recession-2026"],
       [patterns |-> << <<<<"fed">>, <<"federal reserve">>>>, <<<<"rate">>>>, <<<<"cut">>>> >>,
        event |-> "fed-rate-cut"],
       [patterns |-> << <<<<"fed">>, <<"federal reserve">>>>, <<<<"rate">>>>,
                        <<<<"hike">>, <<"raise">>>> >>,
        event |-> "fed-rate-hike"],
       [patterns |-> << <<<<"bitcoin">>, <<"btc">>>>,
                        <<<<"100", "k">>, <<"100000">>, <<"100,000">>>> >>,
        event |-> "bitcoin-100k"],
       [patterns |-> << <<<<"bitcoin">>, <<"btc">>>>,
                        <<<<"150", "k">>, <<"150000">>, <<"150,000">>>> >>,
        event |-> "bitcoin-150k"],
       [patterns |-> << <<<<"bitcoin">>, <<"btc">>>>,
                        <<<<"200", "k">>, <<"200000">>, <<"200,000">>>> >>,
        event |-> "bitcoin-200k"],
       [patterns |-> << <<<<"trump">>>>, <<<<"tariff">>>>, <<<<"china">>>> >>,
        event |-> "trump-tariffs-china"],
       [patterns |-> << <<<<"trump">>>>, <<<<"deport">>>>, <<<<"million">>>> >>,
        event |-> "trump-deportation-million"],
       [patterns |-> << <<<<"doge">>, <<"musk">>>>,
                        <<<<"federal", "employee">>, <<"employee", "federal">>>> >>,
        event |-> "doge-employees"],
       [patterns |-> << <<<<"super bowl">>>>, <<<<"chiefs">>>> >>, event |-> "superbowl-chiefs"],
       [patterns |-> << <<<<"super bowl">>>>, <<<<"eagles">>>> >>, event |-> "superbowl-eagles"],
       [patterns |-> << <<<<"world cup">>>>, <<<<"usa">>, <<"united states">>>>,
                        <<<<"2026">>>> >>,
        event |-> "worldcup-usa-2026"],
       [patterns |-> << <<<<"s&p">>, <<"sp500">>>>, <<<<"6000">>>> >>, event |-> "sp500-6000"],
       [patterns |-> << <<<<"s&p">>, <<"sp500">>>>, <<<<"7000">>>> >>, event |-> "sp500-7000"]
    >>

\* patterns.every(p => p.test(title)), on the title in lower case
allMatch(patterns, lower) ==
    \A k \in 1 .. Len(patterns) : test(patterns[k], lower)

eventsFrom(lower) ==
    LET matching == SelectSeq(SPECIFIC_EVENT_PATTERNS,
                              LAMBDA entry : allMatch(entry.patterns, lower))
    IN  [k \in 1 .. Len(matching) |-> matching[k].event]

\* The labels of the entries the title matches, in table order. Every
\* expression of the table ignores case.
extractEvents(title) == eventsFrom(toLowerCase(title))

----------------------------------------------------------------------------
(* Entity extractor: market-api.ts, extractEntities *)

stateMap ==
    <<
       [canonical |-> "alabama", variants |-> <<"alabama", "al">>],
       [canonical |-> "alaska", variants |-> <<"alaska", "ak">>],
       [canonical |-> "arizona", variants |-> <<"arizona", "az">>],
       [canonical |-> "arkansas", variants |-> <<"arkansas", "ar">>],
       [canonical |-> "california", variants |-> <<"california", "ca", "calif">>],
       [canonical |-> "colorado", variants |-> <<"colorado", "co", "colo">>],
       [canonical |-> "connecticut", variants |-> <<"connecticut", "ct", "conn">>],
       [canonical |-> "delaware", variants |-> <<"delaware", "de", "del">>],
       [canonical |-> "florida", variants |-> <<"florida", "fl", "fla">>],
       [canonical |-> "georgia", variants |-> <<"georgia", "ga">>],
       [canonical |-> "hawaii", variants |-> <<"hawaii", "hi">>],
       [canonical |-> "idaho", variants |-> <<"idaho", "id">>],
       [canonical |-> "illinois", variants |-> <<"illinois", "il", "ill">>],
       [canonical |-> "indiana", variants |-> <<"indiana", "in", "ind">>],
       [canonical |-> "iowa", variants |-> <<"iowa", "ia">>],
       [canonical |-> "kansas", variants |-> <<"kansas", "ks", "kan">>],
       [canonical |-> "kentucky", variants |-> <<"kentucky", "ky">>],
       [canonical |-> "louisiana", variants |-> <<"louisiana", "la">>],
       [canonical |-> "maine", variants |-> <<"maine", "me">>],
       [canonical |-> "maryland", variants |-> <<"maryland", "md">>],
       [canonical |-> "massachusetts", variants |-> <<"massachusetts", "ma", "mass">>],
       [canonical |-> "michigan", variants |-> <<"michigan", "mi", "mich">>],
       [canonical |-> "minnesota", variants |-> <<"minnesota", "mn", "minn">>],
       [canonical |-> "mississippi", variants |-> <<"mississippi", "ms", "miss">>],
       [canonical |-> "missouri", variants |-> <<"missouri", "mo">>],
       [canonical |-> "montana", variants |-> <<"montana", "mt", "mont">>],
       [canonical |-> "nebraska", variants |-> <<"nebraska", "ne", "neb">>],
       [canonical |-> "nevada", variants |-> <<"nevada", "nv", "nev">>],
       [canonical |-> "new hampshire", variants |-> <<"new hampshire", "nh", "n h">>],
       [canonical |-> "new jersey", variants |-> <<"new jersey", "nj", "n j">>],
       [canonical |-> "new mexico", variants |-> <<"new mexico", "nm", "n m">>],
       [canonical |-> "new york", variants |-> <<"new york", "ny", "n y">>],
       [canonical |-> "north carolina", variants |-> <<"north carolina", "nc", "n c">>],
       [canonical |-> "north dakota", variants |-> <<"north dakota", "nd", "n d">>],
       [canonical |-> "ohio", variants |-> <<"ohio", "oh">>],
       [canonical |-> "oklahoma", variants |-> <<"oklahoma", "ok", "okla">>],
       [canonical |-> "oregon", variants |-> <<"oregon", "or", "ore">>],
       [canonical |-> "pennsylvania", variants |-> <<"pennsylvania", "pa", "penn">>],
       [canonical |-> "rhode island", variants |-> <<"rhode island", "ri", "r i">>],
       [canonical |-> "south carolina", variants |-> <<"south carolina", "sc", "s c">>],
       [canonical |-> "south dakota", variants |-> <<"south dakota", "sd", "s d">>],
       [canonical |-> "tennessee", variants |-> <<"tennessee", "tn", "tenn">>],
       [canonical |-> "texas", variants |-> <<"texas", "tx", "tex">>],
       [canonical |-> "utah", variants |-> <<"utah", "ut">>],
       [canonical |-> "vermont", variants |-> <<"vermont", "vt">>],
       [canonical |-> "virginia", variants |-> <<"virginia", "va">>],
       [canonical |-> "washington", variants |-> <<"washington", "wa", "wash">>],
       [canonical |-> "west virginia", variants |-> <<"west virginia", "wv", "w va">>],
       [canonical |-> "wisconsin", variants |-> <<"wisconsin", "wi", "wis">>],
       [canonical |-> "wyoming", variants |-> <<"wyoming", "wy", "wyo">>]
    >>

nameMap ==
    <<
       [canonical |-> "trump", variants |-> <<"trump", "donald trump">>],
       [canonical |-> "biden", variants |-> <<"biden", "joe biden">>],
       [canonical |-> "harris", variants |-> <<"harris", "kamala harris", "kamala">>],
       [canonical |-> "desantis", variants |-> <<"desantis", "ron desantis">>],
       [canonical |-> "newsom", variants |-> <<"newsom", "gavin newsom">>],
       [canonical |-> "musk", variants |-> <<"musk", "elon musk", "elon">>],
       [canonical |-> "vance", variants |-> <<"vance", "jd vance">>],
       [canonical |-> "pence", variants |-> <<"pence", "mike pence">>],
       [canonical |-> "haley", variants |-> <<"haley", "nikki haley">>],
       [canonical |-> "ramaswamy", variants |-> <<"ramaswamy", "vivek ramaswamy", "vivek">>],
       [canonical |-> "cruz", variants |-> <<"cruz", "ted cruz">>],
       [canonical |-> "rubio", variants |-> <<"rubio", "marco rubio">>],
       [canonical |-> "warren", variants |-> <<"warren", "elizabeth warren">>],
       [canonical |-> "sanders", variants |-> <<"sanders", "bernie sanders", "bernie">>],
       [canonical |-> "buttigieg", variants |-> <<"buttigieg", "pete buttigieg", "pete">>],
       [canonical |-> "ocasio-cortez", variants |-> <<"ocasio-cortez", "aoc", "alexandria ocasio-cortez">>],
       [canonical |-> "bitcoin", variants |-> <<"bitcoin", "btc">>],
       [canonical |-> "ethereum", variants |-> <<"ethereum", "eth">>],
       [canonical |-> "chiefs", variants |-> <<"chiefs", "kansas city chiefs", "kc chiefs">>],
       [canonical |-> "eagles", variants |-> <<"eagles", "philadelphia eagles">>],
       [canonical |-> "bills", variants |-> <<"bills", "buffalo bills">>],
       [canonical |-> "lions", variants |-> <<"lions", "detroit lions">>],
       [canonical |-> "cowboys", variants |-> <<"cowboys", "dallas cowboys">>],
       [canonical |-> "packers", variants |-> <<"packers", "green bay packers">>],
       [canonical |-> "49ers", variants |-> <<"49ers", "niners", "san francisco 49ers">>]
    >>

\* JavaScript's null.
Null == "null"

\* The decimal digits of s with its leading zeros removed ("0" for zero).
RECURSIVE stripLeadingZeros(_)
stripLeadingZeros(s) ==
    IF Len(s) > 1 /\ Head(s) = "0" THEN stripLeadingZeros(Tail(s)) ELSE s

RECURSIVE stripTrailingZeros(_)
stripTrailingZeros(s) ==
    IF s # "" /\ Ch(s, Len(s)) = "0" THEN stripTrailingZeros(SubSeq(s, 1, Len(s) - 1))
    ELSE s

\* (parseFloat(num.slice(0, -1)) * 1000).toString() for a number match that
\* ends in "k": the decimal point moves three places to the right.
timesThousand(num) ==
    LET body == SubSeq(num, 1, Len(num) - 1)
        d == digitsEnd(body, 1)
        whole == SubSeq(body, 1, d)
        f == IF Ch(body, d + 1) = "." THEN digitsEnd(body, d + 2) ELSE d
        fraction == IF f > d + 1 THEN SubSeq(body, d + 2, f) ELSE ""
        padded == fraction \o "000"
        rest == stripTrailingZeros(SubSeq(padded, 4, Len(padded)))
        shifted == stripLeadingZeros(whole \o SubSeq(padded, 1, 3))
    IN  IF rest = "" THEN shifted ELSE shifted \o "." \o rest

\* The number matches longer than one character, those ending in "k" scaled.
numbersOf(normalized) ==
    LET numMatches == matchAll("number", normalized, 1)
    IN  {IF Ch(numMatches[k], Len(numMatches[k])) = "k"
         THEN timesThousand(numMatches[k]) ELSE numMatches[k] :
            k \in {j \in 1 .. Len(numMatches) : Len(numMatches[j]) > 1}}

\* /republican|gop|rnc|r\b/i first, /democrat|dnc|dem\b|d\b/i otherwise.
partyOf(normalized) ==
    IF \/ includes(normalized, "republican") \/ includes(normalized, "gop")
       \/ includes(normalized, "rnc") \/ endsWord(normalized, "r")
    THEN "republican"
    ELSE IF \/ includes(normalized, "democrat") \/ includes(normalized, "dnc")
            \/ endsWord(normalized, "dem") \/ endsWord(normalized, "d")
    THEN "democrat"
    ELSE Null

\* The canonical names of the entries one of whose variants stands in the
\* text as a whole word, in table order.
canonicalFrom(table, normalized) ==
    LET matching ==
            SelectSeq(table,
                      LAMBDA entry : \E v \in 1 .. Len(entry.variants) :
                                         wholeWord(normalized, entry.variants[v]))
    IN  [k \in 1 .. Len(matching) |-> matching[k].canonical]

\* q.toLowerCase().replace(/\s+/g, '')
RECURSIVE removeSpaces(_)
removeSpaces(s) ==
    IF s = "" THEN ""
    ELSE (IF Head(s) \in WhiteSpace THEN "" ELSE Head(s)) \o removeSpaces(Tail(s))

monthMap(m) ==
    CASE m = "january" -> "jan" [] m = "february" -> "feb" [] m = "march" -> "mar"
      [] m = "april" -> "apr" [] m = "may" -> "may" [] m = "june" -> "jun"
      [] m = "july" -> "jul" [] m = "august" -> "aug" [] m = "september" -> "sep"
      [] m = "sept" -> "sep" [] m = "october" -> "oct" [] m = "november" -> "nov"
      [] m = "december" -> "dec" [] OTHER -> m

timeFramesOf(normalized) ==
    {removeSpaces(toLowerCase(q)) : q \in Range(matchAll("quarter", normalized, 1))}
    \cup {monthMap(toLowerCase(m)) : m \in Range(matchAll("month", normalized, 1))}

\* names keeps the order of nameMap (the insertion order of the Set); the
\* other fields are read as sets only.
extractEntities(title) ==
    LET normalized == toLowerCase(title)
    IN  [names |-> canonicalFrom(nameMap, normalized),
         numbers |-> numbersOf(normalized),
         years |-> Range(matchAll("year", normalized, 1)),
         party |-> partyOf(normalized),
         states |-> Range(canonicalFrom(stateMap, normalized)),
         timeFrames |-> timeFramesOf(normalized)]

----------------------------------------------------------------------------
(* Similarity scorer: market-api.ts, normalizeTitle .. calculateSimilarity *)

normalizeTitle(title) ==
    LET t1 == toLowerCase(title)
        t2 == replace(t1, <<"january", "jan">>, "jan")
        t3 == replace(t2, <<"february", "feb">>, "feb")
        t4 == replace(t3, <<"march", "mar">>, "mar")
        t5 == replace(t4, <<"april", "apr">>, "apr")
        t6 == replace(t5, <<"may">>, "may")
        t7 == replace(t6, <<"june", "jun">>, "jun")
        t8 == replace(t7, <<"july", "jul">>, "jul")
        t9 == replace(t8, <<"august", "aug">>, "aug")
        t10 == replace(t9, <<"september", "sept", "sep">>, "sep")
        t11 == replace(t10, <<"october", "oct">>, "oct")
        t12 == replace(t11, <<"november", "nov">>, "nov")
        t13 == replace(t12, <<"december", "dec">>, "dec")
        t14 == replace(t13, <<"republican", "gop", "rnc">>, "republican")
        t15 == replace(t14, <<"democratic", "dem", "dnc">>, "democratic")
        t16 == replace(t15, <<"midterm elections", "midterm election">>, "midterms")
        t17 == replace(t16, <<"united states", "u.s.", "usa">>, "us")
        t18 == replace(t17, <<"?">>, "")
        t19 == blankPunctuation(t18)
        t20 == collapseSpaces(t19, 1)
        \* the text after each call of the chain, in the order of the calls
        chain == <<t1, t2, t3, t4, t5, t6, t7, t8, t9, t10, t11, t12, t13, t14,
                   t15, t16, t17, t18, t19, t20>>
    IN  trim(chain[Len(chain)])

stopWords ==
    {"will", "the", "a", "an", "be", "is", "are", "was", "were", "in", "on", "at",
     "to", "for", "of", "by", "with", "or", "and", "more", "than", "less", "yes",
     "no", "win", "who", "what", "when", "where", "how"}

\* The tokens in the order of their first occurrence (the Set's order).
extractTokens(title) ==
    unique(SelectSeq(split(normalizeTitle(title)),
                     LAMBDA w : Len(w) > 2 /\ w \notin stopWords))

\* A measure that divides the intersection by the first set alone.
jaccardOverFirst(setA, setB) ==
    LET intersection == Range(setA) \cap Range(setB)
    IN  IF Cardinality(Range(setA)) > 0
        THEN Rat(Cardinality(intersection), Cardinality(Range(setA)))
        ELSE RatZero

\* intersection.size / union.size as a fraction, 0 for an empty union.
jaccardSimilarity(setA, setB) ==
    LET intersection == Range(setA) \cap Range(setB)
        union == Range(setA) \cup Range(setB)
    IN  IF Cardinality(union) > 0
        THEN Rat(Cardinality(intersection), Cardinality(union))
        ELSE RatZero

\* Math.round(jaccard * 100)
roundPercent(jaccard) == (200 * jaccard.num + jaccard.den) \div (2 * jaccard.den)

\* The elements of q that f keeps, and its first n elements.
keep(q, f(_)) == SelectSeq(q, f)

firstN(q, n) == SubSeq(q, 1, Min(n, Len(q)))

\* The labels of eventsA that eventsB holds too, in the order of eventsA: the
\* nested loops return at the first of them.
sharedEvents(eventsA, eventsB) == keep(eventsA, LAMBDA ea : ea \in Range(eventsB))

\* entitiesA.party && entitiesB.party && entitiesA.party !== entitiesB.party
partyConflict(entitiesA, entitiesB) ==
    /\ entitiesA.party # Null
    /\ entitiesB.party # Null
    /\ entitiesA.party # entitiesB.party

\* A check that takes two non-empty sets as conflicting whatever they hold.
signalsNeverShared(setA, setB) ==
    /\ setA # {}
    /\ setB # {}

\* A check that never finds two sets in conflict.
signalsNeverConflict(setA, setB) == FALSE

\* Both sets are non-empty and have no common element.
disjointSignals(setA, setB) ==
    /\ setA # {}
    /\ setB # {}
    /\ ~\E x \in setA : x \in setB

\* A threshold that trusts every score.
untrustedNever(nameOverlap, score) == FALSE

\* nameOverlap.length === 0 && score < 60
untrusted(nameOverlap, score) == Len(nameOverlap) = 0 /\ score < 60

\* calculateSimilarity after the event check: the strict checks and the
\* entity-enhanced token matching.
entityTokenMatch(entitiesA, entitiesB, tokensA, tokensB) ==
    LET zero == [score |-> 0, reason |-> ""]
        jaccard == jaccardSimilarity(tokensA, tokensB)
        nameOverlap == keep(entitiesA.names, LAMBDA n : n \in Range(entitiesB.names))
        base == roundPercent(jaccard)
        boosted == IF Len(nameOverlap) > 0
                   THEN Min(100, base + Len(nameOverlap) * 15) ELSE base
        score == IF /\ entitiesA.timeFrames # {} /\ entitiesB.timeFrames # {}
                    /\ entitiesA.timeFrames \cap entitiesB.timeFrames # {}
                 THEN Min(100, boosted + 10) ELSE boosted
        commonTokens == firstN(keep(tokensA, LAMBDA t : t \in Range(tokensB)), 4)
        reason == IF Len(nameOverlap) > 0
                  THEN "match: " \o join(nameOverlap, ", ")
                  ELSE "similar: " \o join(commonTokens, ", ")
    IN  IF partyConflict(entitiesA, entitiesB) THEN zero
        ELSE IF disjointSignals(entitiesA.states, entitiesB.states) THEN zero
        ELSE IF disjointSignals(entitiesA.timeFrames, entitiesB.timeFrames) THEN zero
        ELSE IF ~RatLeq([num |-> 1, den |-> 4], jaccard) THEN zero
        ELSE IF disjointSignals(entitiesA.years, entitiesB.years) THEN zero
        ELSE IF disjointSignals(entitiesA.numbers, entitiesB.numbers) THEN zero
        ELSE IF untrusted(nameOverlap, score) THEN zero
        ELSE [score |-> score, reason |-> reason]

\* A scorer that applies the party check before the event check.
calculateSimilarityPartyFirst(a, b) ==
    LET shared == sharedEvents(extractEvents(a.title), extractEvents(b.title))
    IN  IF partyConflict(extractEntities(a.title), extractEntities(b.title))
        THEN [score |-> 0, reason |-> ""]
        ELSE IF shared # <<>> THEN [score |-> 95, reason |-> shared[1]]
        ELSE entityTokenMatch(extractEntities(a.title), extractEntities(b.title),
                              extractTokens(a.title), extractTokens(b.title))

calculateSimilarity(a, b) ==
    LET shared == sharedEvents(extractEvents(a.title), extractEvents(b.title))
    IN  IF shared # <<>> THEN [score |-> 95, reason |-> shared[1]]
        ELSE entityTokenMatch(extractEntities(a.title), extractEntities(b.title),
                              extractTokens(a.title), extractTokens(b.title))

----------------------------------------------------------------------------
(* Opportunity finder: market-api.ts, findArbitrageOpportunities *)

\* A listing (StandardizedMarket) is a record [id, platform, title, yesPrice,
\* noPrice, volume] with the prices in hundredths of a cent (1 is One). An
\* opportunity is a record
\* [marketA, marketB, combinedYesCost, potentialProfit, roi, matchScore,
\* matchReason] with combinedYesCost and potentialProfit in that unit and roi
\* a fraction, in percent. byPlatform is filled and never read: the model
\* leaves it out.

\* The unit payout, 1, in the unit of the listings' prices.
One == 10000

minSimilarity == 60

MAX_BUCKET_SIZE == 500

topics ==
    <<"senate", "house", "president", "governor", "bitcoin", "btc", "ethereum",
      "recession", "fed", "super bowl", "nba", "nfl", "world cup", "olympics">>

years == <<"2025", "2026", "2027", "2028">>

\* Each expression \bhead\b, or \bhead.?tail\b where gap is TRUE.
entityPatterns ==
    <<[name |-> "trump", head |-> "trump", gap |-> FALSE, tail |-> ""],
      [name |-> "biden", head |-> "biden", gap |-> FALSE, tail |-> ""],
      [name |-> "harris", head |-> "harris", gap |-> FALSE, tail |-> ""],
      [name |-> "desantis", head |-> "desantis", gap |-> FALSE, tail |-> ""],
      [name |-> "newsom", head |-> "newsom", gap |-> FALSE, tail |-> ""],
      [name |-> "musk", head |-> "musk", gap |-> FALSE, tail |-> ""],
      [name |-> "vance", head |-> "vance", gap |-> FALSE, tail |-> ""],
      [name |-> "buttigieg", head |-> "buttigieg", gap |-> FALSE, tail |-> ""],
      [name |-> "ocasio-cortez", head |-> "ocasio", gap |-> TRUE, tail |-> "cortez"]>>

\* pattern.test(title) for an entry of entityPatterns
entityTest(pattern, title) ==
    \E i \in 1 .. Len(title) :
        /\ boundary(title, i)
        /\ matchAt(title, i, pattern.head)
        /\ LET e == i + Len(pattern.head)
           IN  \/ /\ matchAt(title, e, pattern.tail)
                  /\ boundary(title, e + Len(pattern.tail))
               \/ /\ pattern.gap
                  /\ e <= Len(title)
                  /\ matchAt(title, e + 1, pattern.tail)
                  /\ boundary(title, e + 1 + Len(pattern.tail))

\* The sequences of seqs[lo .. hi], concatenated.
RECURSIVE flatten(_, _, _)
flatten(seqs, lo, hi) ==
    IF lo > hi THEN <<>>
    ELSE IF lo = hi THEN seqs[lo]
    ELSE flatten(seqs, lo, (lo + hi) \div 2) \o flatten(seqs, (lo + hi) \div 2 + 1, hi)

\* The compound keys in the order of the two nested loops: topic, then year.
compoundKeys ==
    [k \in 1 .. Len(topics) * Len(years) |->
        [topic |-> topics[((k - 1) \div Len(years)) + 1],
         year |-> years[((k - 1) % Len(years)) + 1]]]

\* The keys under which the index files a listing, in the order it does.
keysOf(m) ==
    LET title == toLowerCase(m.title)
        compound == SelectSeq(compoundKeys,
                              LAMBDA c : includes(title, c.topic) /\ includes(title, c.year))
        entities == SelectSeq(entityPatterns, LAMBDA e : entityTest(e, title))
    IN  [k \in 1 .. Len(compound) |-> compound[k].topic \o "-" \o compound[k].year]
            \o [k \in 1 .. Len(entities) |-> entities[k].name]

\* keywordIndex as the sequence of its entries, in the insertion order of the
\* keys; each bucket holds its listings in the order of markets.
keywordIndex(markets) ==
    LET keys == unique(flatten([k \in 1 .. Len(markets) |-> keysOf(markets[k])],
                               1, Len(markets)))
    IN  [k \in 1 .. Len(keys) |->
            [keyword |-> keys[k],
             matchingMarkets |->
                 SelectSeq(markets, LAMBDA m : keys[k] \in Range(keysOf(m)))]]

\* matchingMarkets.sort((a, b) => (b.volume || 0) - (a.volume || 0))
\*     .slice(0, MAX_BUCKET_SIZE): the sort is stable.
sortedMarkets(matchingMarkets) ==
    LET n == Len(matchingMarkets)
        rank(i) == 1 + Cardinality({j \in 1 .. n :
                        \/ matchingMarkets[j].volume > matchingMarkets[i].volume
                        \/ /\ matchingMarkets[j].volume = matchingMarkets[i].volume
                           /\ j < i})
    IN  firstN([r \in 1 .. n |-> matchingMarkets[CHOOSE i \in 1 .. n : rank(i) = r]],
               MAX_BUCKET_SIZE)

\* The pairs (sortedMarkets[i], sortedMarkets[j]), i < j, in the order the two
\* nested loops visit them; none when fewer than two platforms are in the
\* bucket.
bucketPairs(matchingMarkets) ==
    LET sorted == sortedMarkets(matchingMarkets)
        n == Len(sorted)
        indexPairs == {p \in (1 .. n) \X (1 .. n) : p[1] < p[2]}
        position(p) == 1 + Cardinality({q \in indexPairs :
                            q[1] < p[1] \/ (q[1] = p[1] /\ q[2] < p[2])})
        pairAt(k) == CHOOSE p \in indexPairs : position(p) = k
    IN  IF Cardinality({matchingMarkets[i].platform : i \in 1 .. Len(matchingMarkets)}) < 2
        THEN <<>>
        ELSE [k \in 1 .. Cardinality(indexPairs) |->
                 [a |-> sorted[pairAt(k)[1]], b |-> sorted[pairAt(k)[2]]]]

\* The characters of the ids in the order of their code units.
codeUnitOrder == " -0123456789ABCDEFGHIJKLMNOPQRSTUVWXYZ_abcdefghijklmnopqrstuvwxyz"

codeUnit(c) == least({i \in 1 .. Len(codeUnitOrder) : SubSeq(codeUnitOrder, i, i) = c})

\* x < y for strings: by code unit at the first difference, a proper prefix
\* first.
stringLess(x, y) ==
    LET d == least({i \in 1 .. Min(Len(x), Len(y)) : SubSeq(x, i, i) # SubSeq(y, i, i)})
    IN  IF d = 0 THEN Len(x) < Len(y)
        ELSE codeUnit(SubSeq(x, d, d)) < codeUnit(SubSeq(y, d, d))

\* [a.id, b.id].sort().join('-')
pairKey(a, b) ==
    IF stringLess(b.id, a.id) THEN b.id \o "-" \o a.id ELSE a.id \o "-" \o b.id

\* A finder that compares listings of one platform too.
samePlatformNever(a, b) == FALSE

\* a.platform === b.platform
samePlatform(a, b) == a.platform = b.platform

\* An opportunity whose roi is the profit over the payout.
opportunityOverPayout(marketA, marketB, cost, score, reason) ==
    [marketA |-> marketA, marketB |-> marketB,
     combinedYesCost |-> cost,
     potentialProfit |-> One - cost,
     roi |-> Rat((One - cost) * 100, One),
     matchScore |-> score,
     matchReason |-> reason]

\* The opportunity pushed for one scenario.
opportunity(marketA, marketB, cost, score, reason) ==
    [marketA |-> marketA, marketB |-> marketB,
     combinedYesCost |-> cost,
     potentialProfit |-> One - cost,
     roi |-> Rat((One - cost) * 100, cost),
     matchScore |-> score,
     matchReason |-> reason]

\* A scenario that is emitted at a combined cost of 1 as well.
scenarioAtPar(marketA, marketB, cost, score, reason, minRoi) ==
    IF cost <= One /\ RatLeq([num |-> minRoi, den |-> 1], Rat((One - cost) * 100, cost))
    THEN <<opportunity(marketA, marketB, cost, score, reason)>>
    ELSE <<>>

\* One scenario block: what it pushes, for the combined cost of its two legs.
scenario(marketA, marketB, cost, score, reason, minRoi) ==
    IF cost < One /\ RatLeq([num |-> minRoi, den |-> 1], Rat((One - cost) * 100, cost))
    THEN <<opportunity(marketA, marketB, cost, score, reason)>>
    ELSE <<>>

\* The two scenario blocks entered whatever the score.
scenariosUnfiltered(a, b, similarity, minRoi) ==
    scenario(a, b, a.yesPrice + b.noPrice,
             similarity.score, similarity.reason, minRoi)
        \o scenario(b, a, a.noPrice + b.yesPrice,
                    similarity.score, similarity.reason, minRoi)

\* The two scenario blocks of the inner loop, for the similarity of the pair.
scenarios(a, b, similarity, minRoi) ==
    IF similarity.score < minSimilarity THEN <<>>
    ELSE scenario(a, b, a.yesPrice + b.noPrice,
                  similarity.score, similarity.reason, minRoi)
             \o scenario(b, a, a.noPrice + b.yesPrice,
                         similarity.score, similarity.reason, minRoi)

\* The body of the inner loop for a pair that is compared.
compare(a, b, minRoi) == scenarios(a, b, calculateSimilarity(a, b), minRoi)

\* The pairs the bucket loop visits, over all the buckets of the index.
visited(index) ==
    flatten([k \in 1 .. Len(index) |-> bucketPairs(index[k].matchingMarkets)],
            1, Len(index))

\* The k-th visited pair is compared: its listings are of different
\* platforms and no earlier such pair had its key (the set compared).
isCompared(pairs, k) ==
    /\ ~samePlatform(pairs[k].a, pairs[k].b)
    /\ \A e \in 1 .. (k - 1) :
           \/ samePlatform(pairs[e].a, pairs[e].b)
           \/ pairKey(pairs[e].a, pairs[e].b) # pairKey(pairs[k].a, pairs[k].b)

\* What the bucket loop pushes over the visited pairs, in order.
pushedOver(pairs, minRoi) ==
    flatten([k \in 1 .. Len(pairs) |->
                IF isCompared(pairs, k) THEN compare(pairs[k].a, pairs[k].b, minRoi)
                ELSE <<>>],
            1, Len(pairs))

\* The visited pairs that are compared, in order.
comparedPairs(pairs) ==
    flatten([k \in 1 .. Len(pairs) |->
                IF isCompared(pairs, k) THEN <<pairs[k]>> ELSE <<>>],
            1, Len(pairs))

\* The pairs handed to calculateSimilarity during one call, in order.
scored(markets) == comparedPairs(visited(keywordIndex(markets)))

\* The opportunities in the order they are pushed.
pushed(markets, minRoi) == pushedOver(visited(keywordIndex(markets)), minRoi)

\* a.roi - b.roi > 0.1 for roi fractions, that is 10 * a - 10 * b > 1,
\* decided on the integer parts of 10 * a and 10 * b first so that the
\* cross products stay small.
exceedsTenth(a, b) ==
    LET ia == (10 * a.num) \div a.den
        ib == (10 * b.num) \div b.den
        ra == (10 * a.num) % a.den
        rb == (10 * b.num) % b.den
    IN  IF ia - ib >= 2 THEN TRUE
        ELSE IF ia - ib <= 0 THEN FALSE
        ELSE ra * b.den > rb * a.den

\* The comparison function of the final sort: negative when a goes first.
compareOpportunities(a, b) ==
    IF exceedsTenth(a.roi, b.roi) THEN -1
    ELSE IF exceedsTenth(b.roi, a.roi) THEN 1
    ELSE b.matchScore - a.matchScore

\* The comparison function orders the opportunities consistently: going
\* first is transitive, and so is being tied.
consistent(opportunities) ==
    LET n == Len(opportunities)
        c(i, j) == compareOpportunities(opportunities[i], opportunities[j])
    IN  \A i, j, k \in 1 .. n :
            /\ (c(i, j) < 0) <=> (c(j, i) > 0)
            /\ (c(i, j) < 0 /\ c(j, k) < 0) => c(i, k) < 0
            /\ (c(i, j) = 0 /\ c(j, k) = 0) => c(i, k) = 0

\* The orders opportunities.sort(...) can leave: the stable order under a
\* consistent comparison function, any order otherwise.
sortOutcomes(opportunities) ==
    LET n == Len(opportunities)
        c(i, j) == compareOpportunities(opportunities[i], opportunities[j])
        rank(i) == 1 + Cardinality({j \in 1 .. n : c(j, i) < 0 \/ (c(j, i) = 0 /\ j < i)})
    IN  IF consistent(opportunities)
        THEN {[r \in 1 .. n |-> opportunities[CHOOSE i \in 1 .. n : rank(i) = r]]}
        ELSE {[r \in 1 .. n |-> opportunities[f[r]]] :
                 f \in {g \in [1 .. n -> 1 .. n] : \A x, y \in 1 .. n : g[x] = g[y] => x = y}}

findArbitrageOpportunities(markets, minRoi) == sortOutcomes(pushed(markets, minRoi))

----------------------------------------------------------------------------
(* Fee model: sentinel.tsx, calculatePlatformFee *)

\* Money unit: micro-dollars per dollar, and per cent of price.
Dollar == 1000000

Cent == 10000

\* calculatePlatformFee without the Maker exemption of the sliding scale.
feeIgnoringMode(platform, price, contracts, mode) ==
    LET platformLower == toLowerCase(platform)
    IN  IF platformLower = "kalshi"
        THEN 7 * price * (100 - price) * contracts
        ELSE IF platformLower = "polymarket"
        THEN price * contracts
        ELSE IF platformLower = "predictit"
        THEN (100 - price) * contracts * 1000
        ELSE IF platformLower = "ibkr" \/ platformLower = "ibkr forecast"
        THEN contracts * Cent
        ELSE 0

\* calculatePlatformFee with the sliding scale taken on the price alone.
feeWithoutComplement(platform, price, contracts, mode) ==
    LET platformLower == toLowerCase(platform)
    IN  IF platformLower = "kalshi"
        THEN IF mode = "Maker" THEN 0
             ELSE 7 * price * 100 * contracts
        ELSE IF platformLower = "polymarket"
        THEN price * contracts
        ELSE IF platformLower = "predictit"
        THEN (100 - price) * contracts * 1000
        ELSE IF platformLower = "ibkr" \/ platformLower = "ibkr forecast"
        THEN contracts * Cent
        ELSE 0

\* price in cents, contracts an integer, result in micro-dollars:
\*   kalshi      0.07 * price * (1 - price) * contracts   (Taker only)
\*   polymarket  (price * contracts) * 0.0001
\*   predictit   (1.0 - price) * contracts * 0.10
\*   ibkr        contracts * 0.01
calculatePlatformFee(platform, price, contracts, mode) ==
    LET platformLower == toLowerCase(platform)
    IN  IF platformLower = "kalshi"
        THEN IF mode = "Maker" THEN 0
             ELSE 7 * price * (100 - price) * contracts
        ELSE IF platformLower = "polymarket"
        THEN price * contracts
        ELSE IF platformLower = "predictit"
        THEN (100 - price) * contracts * 1000
        ELSE IF platformLower = "ibkr" \/ platformLower = "ibkr forecast"
        THEN contracts * Cent
        ELSE 0

\* calculatePlatformFee of arbitrage-calculator.tsx, in the same units:
\*   kalshi               0.07 * price * (1 - price) * contracts   (Taker only)
\*   polymarket           0
\*   predictit            (1.0 - price) * contracts * 0.10
\*   ibkr or forecastex   0.01 * contracts
calculatorPlatformFee(platform, price, contracts, mode) ==
    LET platformLower == toLowerCase(platform)
    IN  IF platformLower = "kalshi"
        THEN IF mode = "Maker" THEN 0
             ELSE 7 * price * (100 - price) * contracts
        ELSE IF platformLower = "polymarket"
        THEN 0
        ELSE IF platformLower = "predictit"
        THEN (100 - price) * contracts * 1000
        ELSE IF includes(platformLower, "ibkr") \/ includes(platformLower, "forecastex")
        THEN Cent * contracts
        ELSE 0

\* coefficient * contracts in IEEE arithmetic for a contract count that is
\* "NaN" or "-Infinity" and a coefficient >= 0: 0 * -Infinity is NaN.
timesNonFinite(coefficient, contracts) ==
    IF coefficient = 0 \/ contracts = "NaN" THEN "NaN" ELSE contracts

\* calculatePlatformFee for a contract count that is "NaN" or "-Infinity"
\* (Math.floor of a division by a zero baseCost).
nonFiniteFee(platform, price, contracts, mode) ==
    LET platformLower == toLowerCase(platform)
    IN  IF platformLower = "kalshi"
        THEN IF mode = "Maker" THEN "0"
             ELSE timesNonFinite(7 * price * (100 - price), contracts)
        ELSE IF platformLower = "polymarket"
        THEN timesNonFinite(price, contracts)
        ELSE IF platformLower = "predictit"
        THEN timesNonFinite(100 - price, contracts)
        ELSE IF platformLower = "ibkr" \/ platformLower = "ibkr forecast"
        THEN timesNonFinite(1, contracts)
        ELSE "0"

----------------------------------------------------------------------------
(* ROI calculator: sentinel.tsx, calculateScenarioRoi and calculateBestRoi *)

\* totalCost of the loop body: (baseCost * maxContracts) + feeA + feeB.
totalCost(platformA, priceA, platformB, priceB, contracts, mode) ==
    (priceA + priceB) * Cent * contracts
        + calculatePlatformFee(platformA, priceA, contracts, mode)
        + calculatePlatformFee(platformB, priceB, contracts, mode)

\* The loop breaking on totalCost < investment instead of <=.
RECURSIVE affordableContractsStrict(_, _, _, _, _, _, _)
affordableContractsStrict(platformA, priceA, platformB, priceB, investment, mode, maxContracts) ==
    IF maxContracts > 0
    THEN IF totalCost(platformA, priceA, platformB, priceB, maxContracts, mode) < investment
         THEN maxContracts
         ELSE affordableContractsStrict(platformA, priceA, platformB, priceB,
                                        investment, mode, maxContracts - 1)
    ELSE maxContracts

\* The while loop: decrement maxContracts until the fee-inclusive total fits
\* the investment or maxContracts reaches 0.
RECURSIVE affordableContracts(_, _, _, _, _, _, _)
affordableContracts(platformA, priceA, platformB, priceB, investment, mode, maxContracts) ==
    IF maxContracts > 0
    THEN IF totalCost(platformA, priceA, platformB, priceB, maxContracts, mode) <= investment
         THEN maxContracts
         ELSE affordableContracts(platformA, priceA, platformB, priceB,
                                  investment, mode, maxContracts - 1)
    ELSE maxContracts

\* Math.floor(investment / baseCost), investment in micro-dollars and the
\* prices in cents; baseCost > 0.
floorContracts(investment, baseCost) == investment \div (baseCost * Cent)

\* A call with baseCost = 0 and investment > 0 sets maxContracts to Infinity
\* and never leaves the loop: it returns nothing.
scenarioReturns(priceA, priceB, investment) ==
    ~(priceA + priceB = 0 /\ investment > 0)

\* calculateScenarioRoi without the early return for baseCost >= 1.
scenarioLocalsUnguarded(platformA, priceA, platformB, priceB, investment, mode) ==
    LET baseCost == priceA + priceB
        none == [maxContracts |-> 0, totalInvested |-> 0, netProfit |-> 0,
                 roi |-> RatZero]
    IN  IF investment <= 0 THEN none
        ELSE LET maxContracts ==
                     affordableContracts(platformA, priceA, platformB, priceB,
                         investment, mode, floorContracts(investment, baseCost))
                 totalInvested ==
                     totalCost(platformA, priceA, platformB, priceB,
                               maxContracts, mode)
                 netProfit == maxContracts * Dollar - totalInvested
             IN  IF maxContracts <= 0 THEN none
                 ELSE [maxContracts |-> maxContracts,
                       totalInvested |-> totalInvested,
                       netProfit |-> netProfit,
                       roi |-> RatTimes(Rat(netProfit, totalInvested), 100)]

\* calculateScenarioRoi dividing the profit by the payout, not by the total.
scenarioLocalsOverPayout(platformA, priceA, platformB, priceB, investment, mode) ==
    LET baseCost == priceA + priceB
        none == [maxContracts |-> 0, totalInvested |-> 0, netProfit |-> 0,
                 roi |-> RatZero]
    IN  IF baseCost >= 100 THEN none
        ELSE IF investment <= 0 THEN none
        ELSE LET maxContracts ==
                     affordableContracts(platformA, priceA, platformB, priceB,
                         investment, mode, floorContracts(investment, baseCost))
                 totalInvested ==
                     totalCost(platformA, priceA, platformB, priceB,
                               maxContracts, mode)
                 netProfit == maxContracts * Dollar - totalInvested
             IN  IF maxContracts <= 0 THEN none
                 ELSE [maxContracts |-> maxContracts,
                       totalInvested |-> totalInvested,
                       netProfit |-> netProfit,
                       roi |-> RatTimes(Rat(netProfit, maxContracts * Dollar), 100)]

\* The locals of calculateScenarioRoi at its return; roi is the value
\* returned, in percent.
scenarioLocals(platformA, priceA, platformB, priceB, investment, mode) ==
    LET baseCost == priceA + priceB
        none == [maxContracts |-> 0, totalInvested |-> 0, netProfit |-> 0,
                 roi |-> RatZero]
    IN  IF baseCost >= 100 THEN none
        ELSE IF investment <= 0 THEN none
        ELSE LET maxContracts ==
                     affordableContracts(platformA, priceA, platformB, priceB,
                         investment, mode, floorContracts(investment, baseCost))
             IN  IF maxContracts <= 0 THEN none
                 ELSE LET totalInvested ==
                              totalCost(platformA, priceA, platformB, priceB,
                                        maxContracts, mode)
                          payout == maxContracts * Dollar
                          netProfit == payout - totalInvested
                      IN  [maxContracts |-> maxContracts,
                           totalInvested |-> totalInvested,
                           netProfit |-> netProfit,
                           roi |-> RatTimes(Rat(netProfit, totalInvested), 100)]

calculateScenarioRoi(platformA, priceA, platformB, priceB, investment, mode) ==
    scenarioLocals(platformA, priceA, platformB, priceB, investment, mode).roi

\* Both scenarios return, and so does the fee search of the best one.
bestReturns(priceAYes, priceBYes, investment) ==
    /\ scenarioReturns(priceAYes, 100 - priceBYes, investment)
    /\ scenarioReturns(100 - priceAYes, priceBYes, investment)

calculateBestRoi(platformA, priceAYes, platformB, priceBYes, investment, mode) ==
    LET roi1 == calculateScenarioRoi(platformA, priceAYes, platformB,
                                     100 - priceBYes, investment, mode)
        roi2 == calculateScenarioRoi(platformA, 100 - priceAYes, platformB,
                                     priceBYes, investment, mode)
        bestScenario == IF RatLeq(roi2, roi1) THEN 1 ELSE 2
        bestPriceA == IF bestScenario = 1 THEN priceAYes ELSE 100 - priceAYes
        bestPriceB == IF bestScenario = 1 THEN 100 - priceBYes ELSE priceBYes
        baseCost == bestPriceA + bestPriceB
        \* baseCost = 0: investment / baseCost is NaN for investment 0 and
        \* -Infinity for a negative one; the loop is skipped either way.
        nonFinite == IF investment = 0 THEN "NaN" ELSE "-Infinity"
        contracts ==
            IF baseCost < 100
            THEN affordableContracts(platformA, bestPriceA, platformB, bestPriceB,
                     investment, mode, floorContracts(investment, baseCost))
            ELSE 0
    IN  IF baseCost = 0
        THEN [roi |-> RatMax(roi1, roi2),
              scenario |-> bestScenario,
              feeA |-> nonFiniteFee(platformA, bestPriceA, nonFinite, mode),
              feeB |-> nonFiniteFee(platformB, bestPriceB, nonFinite, mode)]
        ELSE [roi |-> RatMax(roi1, roi2),
              scenario |-> bestScenario,
              feeA |-> calculatePlatformFee(platformA, bestPriceA, contracts, mode),
              feeB |-> calculatePlatformFee(platformB, bestPriceB, contracts, mode)]

----------------------------------------------------------------------------
(* Inputs of the ROI calculator *)

\* Largest investment of the sweep, in dollars.
MaxInvestment == 3

\* The platform names of the pages' lists, a lower-case spelling, and a name
\* no branch of the fee model knows.
Platforms == {"Kalshi", "Polymarket", "PredictIt", "IBKR Forecast", "Other"}

Modes == {"Maker", "Taker"}

\* Prices in cents: the ends of [0, 1], a low price, and the prices around a
\* near-arbitrage (0.52 against 0.56, 0.44 and 0.48 their complements).
Prices == {0, 10, 44, 48, 52, 56, 100}

NearPrices == {44, 48, 52, 56}

\* Investments of the sweep in micro-dollars: negative, none, 1 .. MaxInvestment.
Investments == {d * Dollar : d \in -1 .. MaxInvestment}

\* The sweep over every price, and 100 dollars at the near-arbitrage prices
\* (the decrementing search costs one evaluation step per contract).
RoiInputs ==
    [platformA : Platforms, priceA : Prices, platformB : Platforms,
     priceB : Prices, investment : Investments, mode : Modes]
    \cup
    [platformA : Platforms, priceA : NearPrices, platformB : Platforms,
     priceB : NearPrices, investment : {100 * Dollar}, mode : Modes]

InitRoi ==
    /\ roiArgs \in RoiInputs
    /\ roiResult = Idle
    /\ simArgs = Idle /\ simResult = Idle
    /\ arbArgs = Idle /\ arbResult = Idle
    /\ fetchState = Idle
    /\ browser = Idle

\* calculateScenarioRoi(platformA, priceA, platformB, priceB, investment, mode)
\* with the arguments as leg prices.
ScenarioRoi ==
    /\ roiArgs # Idle /\ roiResult = Idle
    /\ scenarioReturns(roiArgs.priceA, roiArgs.priceB, roiArgs.investment)
    /\ roiResult' =
         [fn |-> "calculateScenarioRoi",
          locals |-> scenarioLocals(roiArgs.platformA, roiArgs.priceA,
                         roiArgs.platformB, roiArgs.priceB,
                         roiArgs.investment, roiArgs.mode),
          roi |-> calculateScenarioRoi(roiArgs.platformA, roiArgs.priceA,
                         roiArgs.platformB, roiArgs.priceB,
                         roiArgs.investment, roiArgs.mode)]
    /\ UNCHANGED <<roiArgs, simArgs, simResult, arbArgs, arbResult, fetchState, browser>>

\* calculateBestRoi(platformA, priceAYes, platformB, priceBYes, investment, mode)
\* with the arguments as YES prices.
BestRoi ==
    /\ roiArgs # Idle /\ roiResult = Idle
    /\ bestReturns(roiArgs.priceA, roiArgs.priceB, roiArgs.investment)
    /\ roiResult' =
         [fn |-> "calculateBestRoi",
          best |-> calculateBestRoi(roiArgs.platformA, roiArgs.priceA,
                       roiArgs.platformB, roiArgs.priceB,
                       roiArgs.investment, roiArgs.mode)]
    /\ UNCHANGED <<roiArgs, simArgs, simResult, arbArgs, arbResult, fetchState, browser>>

NextRoi == ScenarioRoi \/ BestRoi

SpecRoi == InitRoi /\ [][NextRoi]_vars

----------------------------------------------------------------------------
(* Inputs of the fee model *)

\* Largest contract count of the sweep.
MaxContracts == 3

\* The names of the pages' platform lists, and a name no branch knows.
FeePlatforms ==
    {"Kalshi", "Polymarket", "PredictIt", "IBKR", "IBKR Forecast",
     "IBKR ForecastEx", "Other"}

\* Every price in cents, the contract counts 0 .. MaxContracts, and 10
\* contracts at the price 0.5.
FeeInputs ==
    [platform : FeePlatforms, price : 0 .. 100, contracts : 0 .. MaxContracts,
     mode : Modes]
    \cup
    [platform : FeePlatforms, price : {50}, contracts : {10}, mode : Modes]

InitFee ==
    /\ roiArgs \in FeeInputs
    /\ roiResult = Idle
    /\ simArgs = Idle /\ simResult = Idle
    /\ arbArgs = Idle /\ arbResult = Idle
    /\ fetchState = Idle
    /\ browser = Idle

\* calculatePlatformFee(platform, price, contracts, mode) of sentinel.tsx
SentinelFee ==
    /\ roiArgs # Idle /\ roiResult = Idle
    /\ roiResult' =
         [fn |-> "calculatePlatformFee", page |-> "sentinel",
          fee |-> calculatePlatformFee(roiArgs.platform, roiArgs.price,
                                       roiArgs.contracts, roiArgs.mode)]
    /\ UNCHANGED <<roiArgs, simArgs, simResult, arbArgs, arbResult, fetchState, browser>>

\* calculatePlatformFee(platform, price, contracts, mode) of
\* arbitrage-calculator.tsx
CalculatorFee ==
    /\ roiArgs # Idle /\ roiResult = Idle
    /\ roiResult' =
         [fn |-> "calculatePlatformFee", page |-> "arbitrage-calculator",
          fee |-> calculatorPlatformFee(roiArgs.platform, roiArgs.price,
                                        roiArgs.contracts, roiArgs.mode)]
    /\ UNCHANGED <<roiArgs, simArgs, simResult, arbArgs, arbResult, fetchState, browser>>

NextFee == SentinelFee \/ CalculatorFee

SpecFee == InitFee /\ [][NextFee]_vars

----------------------------------------------------------------------------
(* Inputs of the similarity scorer *)

\* Titles: an optional party term, a subject, an optional date.
TitleHeads == {"", "Republican ", "Democrat "}

TitleSubjects ==
    {"Senate seat", "governor race Texas", "Fed rate cut", "Trump tariff China"}

TitleDates == {"", " in 2025", " in 2026", " Q1 2026"}

\* A title of stop words only, titles with a numeric target, and titles
\* with one name and different states or quarters.
ExtraTitles ==
    {"Who will win?",
     "Will Bitcoin reach 100k", "Will Bitcoin reach 200k",
     "Will Bitcoin reach 100k in 2025", "Will Bitcoin reach 200k in 2025",
     "Trump wins Ohio", "Trump wins Texas",
     "Trump wins Q1 2026", "Trump wins Q2 2026"}

Titles ==
    {h \o m \o d : h \in TitleHeads, m \in TitleSubjects, d \in TitleDates}
        \cup ExtraTitles

InitSim ==
    /\ simArgs \in [a : [title : Titles], b : [title : Titles]]
    /\ simResult = Idle
    /\ roiArgs = Idle /\ roiResult = Idle
    /\ arbArgs = Idle /\ arbResult = Idle
    /\ fetchState = Idle
    /\ browser = Idle

\* calculateSimilarity(a, b)
Similarity ==
    /\ simArgs # Idle /\ simResult = Idle
    /\ simResult' = [fn |-> "calculateSimilarity",
                     result |-> calculateSimilarity(simArgs.a, simArgs.b)]
    /\ UNCHANGED <<roiArgs, roiResult, simArgs, arbArgs, arbResult, fetchState, browser>>

NextSim == Similarity

SpecSim == InitSim /\ [][NextSim]_vars

----------------------------------------------------------------------------
(* Inputs of the opportunity finder *)

\* The most listings handed to one call.
MaxMarkets == 4

\* Listings as the three fetchers standardize them: Kalshi events at 0.5 / 0.5
\* with volume 0, Polymarket markets with noPrice = 1 - yesPrice, PredictIt
\* contracts with the id "market-contract", noPrice = 1 - yesPrice and
\* volume 0.
Catalogue ==
    {[id |-> "KXTARIFF", platform |-> "Kalshi",
      title |-> "Trump tariff China in 2025",
      yesPrice |-> 5000, noPrice |-> 5000, volume |-> 0],
     [id |-> "253591", platform |-> "Polymarket",
      title |-> "Trump tariff China in 2026",
      yesPrice |-> 4000, noPrice |-> 6000, volume |-> 9000],
     [id |-> "253592", platform |-> "Polymarket",
      title |-> "Trump tariff China in 2025",
      yesPrice |-> 5000, noPrice |-> 5000, volume |-> 500],
     [id |-> "7456-1", platform |-> "PredictIt",
      title |-> "Senate seat in 2026",
      yesPrice |-> 4500, noPrice |-> 5500, volume |-> 0],
     [id |-> "KXSENATE", platform |-> "Kalshi",
      title |-> "Republican Senate seat in 2026",
      yesPrice |-> 5000, noPrice |-> 5000, volume |-> 0]}

\* Two listings on a Fed rate cut, and two on a Senate seat whose parties
\* conflict.
FedFeed ==
    {[id |-> "KXFEDCUT", platform |-> "Kalshi",
      title |-> "Fed Rate Cut in 2025",
      yesPrice |-> 4000, noPrice |-> 6000, volume |-> 0],
     [id |-> "253593", platform |-> "Polymarket",
      title |-> "Will the Fed cut rates in 2025?",
      yesPrice |-> 5000, noPrice |-> 5000, volume |-> 2000],
     [id |-> "KXSENATE", platform |-> "Kalshi",
      title |-> "Republican Senate seat in 2026",
      yesPrice |-> 5000, noPrice |-> 5000, volume |-> 0],
     [id |-> "7456-2", platform |-> "PredictIt",
      title |-> "Democrat Senate seat in 2026",
      yesPrice |-> 3000, noPrice |-> 7000, volume |-> 0]}

\* A Kalshi listing and three Polymarket listings that match it with
\* different scores, at prices a few hundredths of a cent apart.
TariffFeed ==
    {[id |-> "KXTARIFF", platform |-> "Kalshi",
      title |-> "Trump tariff China in 2025",
      yesPrice |-> 5000, noPrice |-> 5000, volume |-> 0],
     [id |-> "253594", platform |-> "Polymarket",
      title |-> "Trump China trade deal in 2025",
      yesPrice |-> 4077, noPrice |-> 5923, volume |-> 700],
     [id |-> "253595", platform |-> "Polymarket",
      title |-> "Trump China in 2025",
      yesPrice |-> 4084, noPrice |-> 5916, volume |-> 800],
     [id |-> "253596", platform |-> "Polymarket",
      title |-> "Trump tariff China in 2025",
      yesPrice |-> 4090, noPrice |-> 5910, volume |-> 900]}

\* Polymarket ids that are the market number and the contract number of
\* PredictIt ids.
SharedNumberFeed ==
    {[id |-> "7456", platform |-> "Polymarket",
      title |-> "Trump tariff China in 2025",
      yesPrice |-> 4000, noPrice |-> 6000, volume |-> 400],
     [id |-> "8012-9310", platform |-> "PredictIt",
      title |-> "Trump tariff China in 2025",
      yesPrice |-> 5000, noPrice |-> 5000, volume |-> 0],
     [id |-> "7456-8012", platform |-> "PredictIt",
      title |-> "Trump tariff China in 2025",
      yesPrice |-> 4500, noPrice |-> 5500, volume |-> 0],
     [id |-> "9310", platform |-> "Polymarket",
      title |-> "Trump tariff China in 2025",
      yesPrice |-> 4200, noPrice |-> 5800, volume |-> 300]}

Feeds == {Catalogue, FedFeed, TariffFeed, SharedNumberFeed}

\* The listings of one call: up to MaxMarkets different listings of one
\* feed, in any order.
MarketLists ==
    UNION {{q \in [1 .. n -> feed] : \A i, j \in 1 .. n : q[i] = q[j] => i = j} :
              n \in 0 .. MaxMarkets, feed \in Feeds}

\* minRoi, in percent
MinRois == {-5, 0, 10}

InitArb ==
    /\ arbArgs \in [markets : MarketLists, minRoi : MinRois]
    /\ arbResult = Idle
    /\ roiArgs = Idle /\ roiResult = Idle
    /\ simArgs = Idle /\ simResult = Idle
    /\ fetchState = Idle
    /\ browser = Idle

\* findArbitrageOpportunities(markets, minRoi)
FindArbitrageOpportunities ==
    /\ arbArgs # Idle /\ arbResult = Idle
    /\ \E sorted \in findArbitrageOpportunities(arbArgs.markets, arbArgs.minRoi) :
           arbResult' = [fn |-> "findArbitrageOpportunities",
                         opportunities |-> sorted,
                         scored |-> scored(arbArgs.markets)]
    /\ UNCHANGED <<roiArgs, roiResult, simArgs, simResult, arbArgs, fetchState, browser>>

NextArb == FindArbitrageOpportunities

SpecArb == InitArb /\ [][NextArb]_vars

----------------------------------------------------------------------------
(* Market retrieval: market-api.ts, fetchWithRetry, the three fetchers and *)
(* fetchAllMarkets                                                         *)

\* A listing is abstracted to [platform, page, matches]: the page of the
\* upstream answer it came with and whether its title holds the query. Times
\* are in minutes. A fetcher is a record [pc, pageCount, attempt, gathered,
\* result, failure]: gathered is allEvents / allMarkets, result the array it
\* returns, failure how its retrieval ended ("none" when it did not fail).

\* Most pages one fetcher asks for (the parameter maxPages).
MaxPages == 2

maxRetries == 3

CACHE_TTL == 5

\* Date.now() when the model starts.
StartTime == 10

\* Minutes that can pass before a call.
Elapsed == {1, CACHE_TTL}

\* The listings of one upstream page.
pageOf(platform, page) ==
    <<[platform |-> platform, page |-> page, matches |-> TRUE],
      [platform |-> platform, page |-> page, matches |-> FALSE]>>

\* The query filter of a fetcher; query is TRUE when a query was given.
filtered(listings, query) ==
    IF query THEN SelectSeq(listings, LAMBDA m : m.matches) ELSE listings

\* A fetcher before its first request.
started ==
    [pc |-> "request", pageCount |-> 0, attempt |-> 0, gathered |-> <<>>,
     result |-> <<>>, failure |-> "none"]

\* A fetcher that returns result.
finished(fetcher, result, failure) ==
    [fetcher EXCEPT !.pc = "done", !.result = result, !.failure = failure]

\* A fetcher after a page that answered with listings; more tells whether
\* the loop goes on (a cursor, or a full page) while pageCount < maxPages.
gatheredPage(fetcher, platform, more, query) ==
    LET gathered == fetcher.gathered \o pageOf(platform, fetcher.pageCount + 1)
    IN  IF more /\ fetcher.pageCount + 1 < MaxPages
        THEN [fetcher EXCEPT !.gathered = gathered, !.pageCount = @ + 1,
                             !.attempt = 0]
        ELSE [fetcher EXCEPT !.gathered = gathered, !.pageCount = @ + 1,
                             !.pc = "done", !.result = filtered(gathered, query)]

\* What one attempt of fetchWithRetry can meet, and what the body of an
\* answer can be.
KalshiOutcomes ==
    {"events", "lastEvents", "noEvents", "badBody", "httpError", "rateLimited",
     "networkError"}

\* fetchKalshiMarkets after one attempt of fetchWithRetry on the current
\* page. A 429 or an exception is retried until maxRetries attempts are
\* used, then fetchWithRetry returns null and the loop breaks; so it does on
\* an answer that is not ok. What was gathered before is processed and
\* returned. An exception of json() reaches the catch, which returns [].
kalshiAfter(fetcher, outcome, query) ==
    IF outcome \in {"rateLimited", "networkError"}
    THEN IF fetcher.attempt + 1 < maxRetries
         THEN [fetcher EXCEPT !.attempt = @ + 1]
         ELSE finished(fetcher, filtered(fetcher.gathered, query), "noResponse")
    ELSE IF outcome = "httpError"
    THEN finished(fetcher, filtered(fetcher.gathered, query), "httpError")
    ELSE IF outcome = "badBody"
    THEN finished(fetcher, <<>>, "exception")
    ELSE IF outcome = "noEvents"
    THEN finished(fetcher, filtered(fetcher.gathered, query), "none")
    ELSE gatheredPage(fetcher, "Kalshi", outcome = "events", query)

PolymarketOutcomes ==
    {"fullPage", "lastPage", "noMarkets", "badBody", "httpError", "networkError"}

\* A fetchPolymarketMarkets that returns what it gathered on an exception.
polymarketAfterKeepingPages(fetcher, outcome, query) ==
    IF outcome \in {"networkError", "badBody"}
    THEN finished(fetcher, filtered(fetcher.gathered, query), "exception")
    ELSE IF outcome = "httpError"
    THEN finished(fetcher, filtered(fetcher.gathered, query), "httpError")
    ELSE IF outcome = "noMarkets"
    THEN finished(fetcher, filtered(fetcher.gathered, query), "none")
    ELSE gatheredPage(fetcher, "Polymarket", outcome = "fullPage", query)

\* fetchPolymarketMarkets after one request of fetch: an exception of fetch
\* or json() reaches the catch, which returns []; an answer that is not ok
\* breaks the loop, and what was gathered before is returned.
polymarketAfter(fetcher, outcome, query) ==
    IF outcome \in {"networkError", "badBody"}
    THEN finished(fetcher, <<>>, "exception")
    ELSE IF outcome = "httpError"
    THEN finished(fetcher, filtered(fetcher.gathered, query), "httpError")
    ELSE IF outcome = "noMarkets"
    THEN finished(fetcher, filtered(fetcher.gathered, query), "none")
    ELSE gatheredPage(fetcher, "Polymarket", outcome = "fullPage", query)

PredictItOutcomes == {"markets", "badBody", "httpError", "networkError"}

\* fetchPredictItMarkets after its one request.
predictItAfter(fetcher, outcome, query) ==
    IF outcome \in {"networkError", "badBody"}
    THEN finished(fetcher, <<>>, "exception")
    ELSE IF outcome = "httpError"
    THEN finished(fetcher, <<>>, "httpError")
    ELSE gatheredPage(fetcher, "PredictIt", FALSE, query)

\* marketCache as the module creates it.
emptyCache ==
    [kalshi |-> <<>>, polymarket |-> <<>>, predictit |-> <<>>, lastFetched |-> 0]

\* marketCache after an earlier refresh that met no failure, at StartTime.
refreshedCache ==
    [kalshi |-> pageOf("Kalshi", 1), polymarket |-> pageOf("Polymarket", 1),
     predictit |-> pageOf("PredictIt", 1), lastFetched |-> StartTime]

\* [...kalshi, ...polymarket, ...predictit]
allOf(lists) == lists.kalshi \o lists.polymarket \o lists.predictit

InitFetch ==
    /\ \E cache \in {emptyCache, refreshedCache} :
           fetchState =
               [fn |-> "fetchAllMarkets", pc |-> "idle",
                now |-> StartTime, marketCache |-> cache,
                query |-> FALSE, forceRefresh |-> FALSE, fromCache |-> FALSE,
                kalshi |-> finished(started, <<>>, "none"),
                polymarket |-> finished(started, <<>>, "none"),
                predictit |-> finished(started, <<>>, "none"),
                returned |-> <<>>]
    /\ roiArgs = Idle /\ roiResult = Idle
    /\ simArgs = Idle /\ simResult = Idle
    /\ arbArgs = Idle /\ arbResult = Idle
    /\ browser = Idle

\* fetchAllMarkets(query, forceRefresh) up to its await: it returns the
\* cached lists, or starts the three fetchers.
FetchAllMarkets ==
    /\ fetchState.pc = "idle"
    /\ \E query \in BOOLEAN, forceRefresh \in BOOLEAN, elapsed \in Elapsed :
           LET now == fetchState.now + elapsed
               called == [fetchState EXCEPT !.now = now,
                                            !.query = query,
                                            !.forceRefresh = forceRefresh]
           IN  IF /\ ~forceRefresh
                  /\ ~query
                  /\ now - fetchState.marketCache.lastFetched < CACHE_TTL
               THEN fetchState' =
                        [called EXCEPT !.pc = "returned", !.fromCache = TRUE,
                                       !.returned = allOf(fetchState.marketCache)]
               ELSE fetchState' =
                        [called EXCEPT !.pc = "fetching", !.fromCache = FALSE,
                                       !.kalshi = started,
                                       !.polymarket = started,
                                       !.predictit = started,
                                       !.returned = <<>>]
    /\ UNCHANGED <<roiArgs, roiResult, simArgs, simResult, arbArgs, arbResult, browser>>

\* One attempt of fetchWithRetry inside fetchKalshiMarkets.
KalshiAttempt ==
    /\ fetchState.pc = "fetching"
    /\ fetchState.kalshi.pc = "request"
    /\ \E outcome \in KalshiOutcomes :
           fetchState' = [fetchState EXCEPT
               !.kalshi = kalshiAfter(@, outcome, fetchState.query)]
    /\ UNCHANGED <<roiArgs, roiResult, simArgs, simResult, arbArgs, arbResult, browser>>

\* One page request of fetchPolymarketMarkets.
PolymarketPage ==
    /\ fetchState.pc = "fetching"
    /\ fetchState.polymarket.pc = "request"
    /\ \E outcome \in PolymarketOutcomes :
           fetchState' = [fetchState EXCEPT
               !.polymarket = polymarketAfter(@, outcome, fetchState.query)]
    /\ UNCHANGED <<roiArgs, roiResult, simArgs, simResult, arbArgs, arbResult, browser>>

\* The request of fetchPredictItMarkets.
PredictItRequest ==
    /\ fetchState.pc = "fetching"
    /\ fetchState.predictit.pc = "request"
    /\ \E outcome \in PredictItOutcomes :
           fetchState' = [fetchState EXCEPT
               !.predictit = predictItAfter(@, outcome, fetchState.query)]
    /\ UNCHANGED <<roiArgs, roiResult, simArgs, simResult, arbArgs, arbResult, browser>>

\* fetchAllMarkets after Promise.all: the cache is replaced when no query
\* was given, and the three lists are returned.
FetchesSettled ==
    /\ fetchState.pc = "fetching"
    /\ fetchState.kalshi.pc = "done"
    /\ fetchState.polymarket.pc = "done"
    /\ fetchState.predictit.pc = "done"
    /\ LET lists == [kalshi |-> fetchState.kalshi.result,
                     polymarket |-> fetchState.polymarket.result,
                     predictit |-> fetchState.predictit.result]
       IN  fetchState' = [fetchState EXCEPT
               !.pc = "returned",
               !.marketCache =
                   IF fetchState.query THEN @
                   ELSE [kalshi |-> lists.kalshi,
                         polymarket |-> lists.polymarket,
                         predictit |-> lists.predictit,
                         lastFetched |-> fetchState.now],
               !.returned = allOf(lists)]
    /\ UNCHANGED <<roiArgs, roiResult, simArgs, simResult, arbArgs, arbResult, browser>>

NextFetch ==
    \/ FetchAllMarkets
    \/ KalshiAttempt
    \/ PolymarketPage
    \/ PredictItRequest
    \/ FetchesSettled

SpecFetch == InitFetch /\ [][NextFetch]_vars

----------------------------------------------------------------------------
(* Concurrent calls of fetchAllMarkets on the one marketCache *)

\* The server answers several requests at a time: a call of fetchAllMarkets
\* runs up to its await, other calls run while its three fetchers are out,
\* and it goes on after Promise.all. Here fetchState is a record
\* [fn, clock, marketCache, made, args, pending, last]: clock is Date.now()
\* in minutes, made the number of calls made, args the arguments of the
\* latest call, pending[q] the number of calls with (q = TRUE) and without
\* a query whose fetchers are out, and last the latest call that returned,
\* a record [query, fromCache, outcomes, returned], where outcomes tells how
\* each fetcher ended: "ok" with every page, "partial" with the first page
\* after a later page failed, "none" with [] after a failure.

\* Most calls of fetchAllMarkets in one behaviour.
MaxCalls == 3

\* Minutes the clock can advance after StartTime.
MaxMinutes == 5

allOk == [kalshi |-> "ok", polymarket |-> "ok", predictit |-> "ok"]

\* How the three fetchers of one call can end; fetchPredictItMarkets has
\* one request only.
VenueOutcomes ==
    [kalshi : {"ok", "partial", "none"}, polymarket : {"ok", "partial", "none"},
     predictit : {"ok", "none"}]

\* The array a fetcher returns.
venueList(platform, outcome, query) ==
    filtered(IF outcome = "none" THEN <<>>
             ELSE IF outcome = "partial" \/ platform = "PredictIt"
             THEN pageOf(platform, 1)
             ELSE pageOf(platform, 1) \o pageOf(platform, 2),
             query)

\* A cache that every call replaces, with a query or without.
cacheAfterAnyCall(cache, query, lists, clock) ==
    [kalshi |-> lists.kalshi, polymarket |-> lists.polymarket,
     predictit |-> lists.predictit, lastFetched |-> clock]

\* A cache that keeps the listings of a venue whose fetcher returned [].
cacheAfterKeepingOld(cache, query, lists, clock) ==
    IF query THEN cache
    ELSE [kalshi |-> IF lists.kalshi = <<>> THEN cache.kalshi ELSE lists.kalshi,
          polymarket |->
              IF lists.polymarket = <<>> THEN cache.polymarket ELSE lists.polymarket,
          predictit |->
              IF lists.predictit = <<>> THEN cache.predictit ELSE lists.predictit,
          lastFetched |-> clock]

\* marketCache after the fetchers of a call returned lists: replaced, and
\* stamped with Date.now(), when the call had no query.
cacheAfter(cache, query, lists, clock) ==
    IF query THEN cache
    ELSE [kalshi |-> lists.kalshi, polymarket |-> lists.polymarket,
          predictit |-> lists.predictit, lastFetched |-> clock]

\* A check that still takes the cache as valid when CACHE_TTL has passed.
cacheValidAtTTL(cache, query, forceRefresh, now) ==
    ~forceRefresh /\ ~query /\ now - cache.lastFetched <= CACHE_TTL

\* !forceRefresh && !query && now - marketCache.lastFetched < CACHE_TTL
cacheValid(cache, query, forceRefresh, now) ==
    ~forceRefresh /\ ~query /\ now - cache.lastFetched < CACHE_TTL

InitCache ==
    /\ fetchState =
         [fn |-> "marketCache", clock |-> StartTime, marketCache |-> emptyCache,
          made |-> 0, args |-> [query |-> FALSE, forceRefresh |-> FALSE],
          pending |-> [q \in BOOLEAN |-> 0],
          last |-> [query |-> FALSE, fromCache |-> FALSE, outcomes |-> allOk,
                    returned |-> <<>>]]
    /\ roiArgs = Idle /\ roiResult = Idle
    /\ simArgs = Idle /\ simResult = Idle
    /\ arbArgs = Idle /\ arbResult = Idle
    /\ browser = Idle

\* A minute passes.
Tick ==
    /\ fetchState.clock < StartTime + MaxMinutes
    /\ fetchState' = [fetchState EXCEPT !.clock = @ + 1]
    /\ UNCHANGED <<roiArgs, roiResult, simArgs, simResult, arbArgs, arbResult, browser>>

\* A call of fetchAllMarkets(query, forceRefresh) up to its await: it
\* returns the cached lists, or sends the three fetchers out.
CallStarts ==
    /\ fetchState.made < MaxCalls
    /\ \E query \in BOOLEAN, forceRefresh \in BOOLEAN :
           LET called == [fetchState EXCEPT
                   !.made = @ + 1,
                   !.args = [query |-> query, forceRefresh |-> forceRefresh]]
           IN  IF cacheValid(fetchState.marketCache, query, forceRefresh,
                             fetchState.clock)
               THEN fetchState' = [called EXCEPT !.last =
                        [query |-> FALSE, fromCache |-> TRUE, outcomes |-> allOk,
                         returned |-> allOf(fetchState.marketCache)]]
               ELSE fetchState' = [called EXCEPT !.pending[query] = @ + 1]
    /\ UNCHANGED <<roiArgs, roiResult, simArgs, simResult, arbArgs, arbResult, browser>>

\* A pending call after Promise.all: the cache is replaced when the call had
\* no query, and the three lists are returned.
CallSettles ==
    \E query \in BOOLEAN, outcomes \in VenueOutcomes :
        /\ fetchState.pending[query] > 0
        /\ LET lists == [kalshi |-> venueList("Kalshi", outcomes.kalshi, query),
                         polymarket |->
                             venueList("Polymarket", outcomes.polymarket, query),
                         predictit |->
                             venueList("PredictIt", outcomes.predictit, query)]
           IN  fetchState' = [fetchState EXCEPT
                   !.marketCache = cacheAfter(@, query, lists, fetchState.clock),
                   !.pending[query] = @ - 1,
                   !.last = [query |-> query, fromCache |-> FALSE,
                             outcomes |-> outcomes, returned |-> allOf(lists)]]
        /\ UNCHANGED <<roiArgs, roiResult, simArgs, simResult, arbArgs, arbResult, browser>>

NextCache ==
    \/ Tick
    \/ CallStarts
    \/ CallSettles

SpecCache == InitCache /\ [][NextCache]_vars

----------------------------------------------------------------------------
(* One call of fetchWithRetry *)

\* Here fetchState is a record
\* [fn, maxRetries, pc, attempt, requests, waitTime, result]: requests is
\* the sequence of what the requests issued so far met, a status (as a
\* string) or
\* "threw", waitTime the seconds of the latest setTimeout, and result
\* "pending", the status of the response returned, or "null".

\* Largest maxRetries a call is made with; the default is maxRetries.
MaxAttempts == 4

\* What one request can meet: the status of a response, or an exception.
RequestOutcomes == {"200", "404", "429", "500", "threw"}

\* A check that takes no response as rate limited.
rateLimitedNever(outcome) == FALSE

\* response.status === 429
rateLimited(outcome) == outcome = "429"

\* attempt++ and the loop condition: the loop ends with return null.
nextAttempt(call) ==
    IF call.attempt + 1 < call.maxRetries
    THEN [call EXCEPT !.attempt = @ + 1, !.pc = "fetch"]
    ELSE [call EXCEPT !.attempt = @ + 1, !.pc = "returned", !.result = "null"]

InitRetry ==
    /\ \E limit \in 1 .. MaxAttempts :
           fetchState = [fn |-> "fetchWithRetry", maxRetries |-> limit,
                         pc |-> "fetch", attempt |-> 0, requests |-> <<>>,
                         waitTime |-> 0, result |-> "pending"]
    /\ roiArgs = Idle /\ roiResult = Idle
    /\ simArgs = Idle /\ simResult = Idle
    /\ arbArgs = Idle /\ arbResult = Idle
    /\ browser = Idle

\* await fetch(url, ...) in the loop body: a 429 waits 2, 4, 8 .. seconds
\* and continues; an exception waits a second unless the attempt is the
\* last one; any other response is returned.
RetryRequest ==
    /\ fetchState.pc = "fetch"
    /\ \E outcome \in RequestOutcomes :
           LET call == [fetchState EXCEPT !.requests = Append(@, outcome)]
           IN  IF outcome = "threw"
               THEN IF call.attempt < call.maxRetries - 1
                    THEN fetchState' = [call EXCEPT !.pc = "wait", !.waitTime = 1]
                    ELSE fetchState' = nextAttempt(call)
               ELSE IF rateLimited(outcome)
               THEN fetchState' = [call EXCEPT !.pc = "wait",
                                               !.waitTime = 2 ^ (call.attempt + 1)]
               ELSE fetchState' = [call EXCEPT !.pc = "returned",
                                               !.result = outcome]
    /\ UNCHANGED <<roiArgs, roiResult, simArgs, simResult, arbArgs, arbResult, browser>>

\* The setTimeout of the loop body ends.
RetryWaitEnds ==
    /\ fetchState.pc = "wait"
    /\ fetchState' = nextAttempt(fetchState)
    /\ UNCHANGED <<roiArgs, roiResult, simArgs, simResult, arbArgs, arbResult, browser>>

NextRetry == RetryRequest \/ RetryWaitEnds

SpecRetry == InitRetry /\ [][NextRetry]_vars

----------------------------------------------------------------------------
(* The market browser of the Sentinel page: sentinel.tsx, togglePlatform;   *)
(* market-browser.tsx, the opportunities query; the route                   *)
(* /api/arbitrage-opportunities                                             *)

\* browser is a record
\* [fn, enabledPlatforms, isScanning, requests, opportunities, scans, toggles]:
\* enabledPlatforms is the state of that name, which is part of the query
\* key; requests holds the query keys whose queryFn awaits its answer;
\* opportunities is the data of the query under the current key, a set of
\* pairs of platforms ([] while the key has no data); scans counts the runs
\* of queryFn and toggles the clicks on a toggle button.

\* Most runs of queryFn in one behaviour.
MaxScans == 2

\* Most clicks on a toggle button in one behaviour.
MaxToggles == 2

\* The names of PLATFORMS, one toggle button each.
PlatformNames == <<"Kalshi", "Polymarket", "PredictIt", "IBKR Forecast">>

\* What the route can answer with: it reads q, minRoi and refresh and not
\* platforms, so the opportunities pair listings of any two of the three
\* venues fetchAllMarkets asks.
ServerAnswers ==
    SUBSET {<<"Kalshi", "Polymarket">>, <<"Kalshi", "PredictIt">>,
            <<"Polymarket", "PredictIt">>}

\* The updater of togglePlatform.
togglePlatform(prev, platform) ==
    IF platform \in Range(prev)
    THEN IF Len(prev) <= 1 THEN prev
         ELSE SelectSeq(prev, LAMBDA p : p # platform)
    ELSE Append(prev, platform)

InitBrowser ==
    /\ browser = [fn |-> "MarketBrowser",
                  enabledPlatforms |-> <<"Kalshi", "Polymarket", "PredictIt">>,
                  isScanning |-> FALSE, requests |-> {}, opportunities |-> {},
                  scans |-> 0, toggles |-> 0]
    /\ roiArgs = Idle /\ roiResult = Idle
    /\ simArgs = Idle /\ simResult = Idle
    /\ arbArgs = Idle /\ arbResult = Idle
    /\ fetchState = Idle

\* A click on the toggle button of a platform; a new query key has no data.
TogglePlatform ==
    /\ browser.toggles < MaxToggles
    /\ \E k \in 1 .. Len(PlatformNames) :
           LET enabled == togglePlatform(browser.enabledPlatforms, PlatformNames[k])
           IN  browser' = [browser EXCEPT
                   !.enabledPlatforms = enabled,
                   !.toggles = @ + 1,
                   !.opportunities =
                       IF enabled = browser.enabledPlatforms THEN @ ELSE {}]
    /\ UNCHANGED <<roiArgs, roiResult, simArgs, simResult, arbArgs, arbResult, fetchState>>

\* queryFn up to its await, run for the current key on mount, after a key
\* change or by refetchOpps: setIsScanning(true) and the request.
QueryFnStarts ==
    /\ browser.scans < MaxScans
    /\ browser.enabledPlatforms \notin browser.requests
    /\ browser' = [browser EXCEPT !.isScanning = TRUE,
                                  !.requests = @ \cup {browser.enabledPlatforms},
                                  !.scans = @ + 1]
    /\ UNCHANGED <<roiArgs, roiResult, simArgs, simResult, arbArgs, arbResult, fetchState>>

\* queryFn after its await: an answer that is ok ends with
\* setIsScanning(false) and the data; an answer that is not ok throws, and
\* so does a request that failed.
QueryFnSettles ==
    /\ \E key \in browser.requests :
           \/ \E answer \in ServerAnswers :
                  browser' = [browser EXCEPT
                      !.isScanning = FALSE,
                      !.requests = @ \ {key},
                      !.opportunities =
                          IF key = browser.enabledPlatforms THEN answer ELSE @]
           \/ browser' = [browser EXCEPT !.requests = @ \ {key}]
    /\ UNCHANGED <<roiArgs, roiResult, simArgs, simResult, arbArgs, arbResult, fetchState>>

NextBrowser ==
    \/ TogglePlatform
    \/ QueryFnStarts
    \/ QueryFnSettles

SpecBrowser == InitBrowser /\ [][NextBrowser]_vars

----------------------------------------------------------------------------
(* Properties of the ROI calculator *)

\* How far past the fee-naive upper bound floor(investment / baseCost) the
\* search for a larger affordable contract count looks.
SearchMargin == 5

scenarioDone == roiResult.fn = "calculateScenarioRoi"

bestDone == roiResult.fn = "calculateBestRoi"

\* A venue and order type whose fee is zero at every price and count:
\* Kalshi for Maker orders, and a name the fee model does not know.
ZeroFeeVenue(platform, mode) ==
    \/ toLowerCase(platform) = "kalshi" /\ mode = "Maker"
    \/ toLowerCase(platform) \notin
           {"kalshi", "polymarket", "predictit", "ibkr", "ibkr forecast"}

\* n contracts cost no more than the investment, fees included.
Affordable(a, n) ==
    (a.priceA + a.priceB) * Cent * n
        + calculatePlatformFee(a.platformA, a.priceA, n, a.mode)
        + calculatePlatformFee(a.platformB, a.priceB, n, a.mode)
      <= a.investment

\* C1: for leg prices in [0, 1] with 0 < priceA + priceB < 1 and an
\* investment > 0, the contract count calculateScenarioRoi bases its ROI on is
\* affordable and no larger count is (looked for up to SearchMargin past
\* floor(investment / baseCost)).
C1_LargestAffordableCount ==
    (/\ scenarioDone
     /\ roiArgs.investment > 0
     /\ roiArgs.priceA + roiArgs.priceB > 0
     /\ roiArgs.priceA + roiArgs.priceB < 100)
    => LET n == roiResult.locals.maxContracts
           top == roiArgs.investment \div ((roiArgs.priceA + roiArgs.priceB) * Cent)
       IN  /\ n >= 0
           /\ Affordable(roiArgs, n)
           /\ \A m \in (n + 1) .. (top + SearchMargin) : ~Affordable(roiArgs, m)

\* C1 witness: the fees made the search step below the fee-naive bound.
C1_Witness ==
    /\ scenarioDone
    /\ roiArgs.investment > 0
    /\ roiArgs.priceA + roiArgs.priceB > 0
    /\ roiArgs.priceA + roiArgs.priceB < 100
    /\ roiResult.locals.maxContracts > 0
    /\ roiResult.locals.maxContracts + 1 <
         roiArgs.investment \div ((roiArgs.priceA + roiArgs.priceB) * Cent)

\* C7: calculateScenarioRoi returns 0 when priceA + priceB >= 1 or
\* investment <= 0, and calculateBestRoi returns roi 0 when both of its
\* scenarios cost >= 1 before fees, whatever the investment.
C7_ZeroRoiAtOrAboveUnitCost ==
    /\ (scenarioDone /\ (roiArgs.priceA + roiArgs.priceB >= 100 \/ roiArgs.investment <= 0))
         => roiResult.roi = RatZero
    /\ (bestDone /\ roiArgs.priceA + (100 - roiArgs.priceB) >= 100
                 /\ (100 - roiArgs.priceA) + roiArgs.priceB >= 100)
         => roiResult.best.roi = RatZero

\* C7 witness: a best-ROI call with a positive investment whose two scenarios
\* both cost exactly the unit payout.
C7_Witness ==
    /\ bestDone
    /\ roiArgs.investment > 0
    /\ roiArgs.priceA = roiArgs.priceB
    /\ roiArgs.platformA = "PredictIt"
    /\ roiResult.best.roi = RatZero

\* The example of the spec: YES on A at 0.52, YES on B at 0.56 (NO on B at 0.44),
\* 100 dollars, zero fees on both venues.
exampleVenues ==
    /\ ZeroFeeVenue(roiArgs.platformA, roiArgs.mode)
    /\ ZeroFeeVenue(roiArgs.platformB, roiArgs.mode)

exampleScenario ==
    /\ scenarioDone /\ exampleVenues
    /\ roiArgs.priceA = 52 /\ roiArgs.priceB = 100 - 56
    /\ roiArgs.investment = 100 * Dollar

exampleBest ==
    /\ bestDone /\ exampleVenues
    /\ roiArgs.priceA = 52 /\ roiArgs.priceB = 56
    /\ roiArgs.investment = 100 * Dollar

\* C9: in the example the scenario 'YES on A + NO on B' has baseCost 0.96,
\* buys 104 = floor(100 / 0.96) contracts and invests 99.84 in total.
C9_ExampleContractsAndTotal ==
    exampleScenario =>
        /\ roiArgs.priceA + roiArgs.priceB = 96
        /\ roiResult.locals.maxContracts = 104
        /\ roiResult.locals.maxContracts = (100 * Dollar) \div (96 * Cent)
        /\ roiResult.locals.totalInvested = 99840000

\* C9 witness: the example evaluated on Kalshi against Kalshi, Maker orders.
C9_Witness ==
    /\ exampleScenario
    /\ roiArgs.platformA = "Kalshi" /\ roiArgs.platformB = "Kalshi"
    /\ roiResult.locals.maxContracts = 104

\* C10 as stated: in the example the net profit is 0.16 and the ROI that
\* calculateBestRoi returns is about 0.16 percent.
C10_AsStated ==
    /\ exampleScenario => roiResult.locals.netProfit = 160000
    /\ exampleBest =>
          /\ RatLeq([num |-> 15, den |-> 100], roiResult.best.roi)
          /\ RatLeq(roiResult.best.roi, [num |-> 17, den |-> 100])

\* C10 amended: in the example the payout is 104 (one unit per contract
\* pair), so the net profit, payout minus total invested, is 104 - 99.84 =
\* 4.16, and the ROI calculateBestRoi returns is 4.16 / 99.84 * 100 = 25/6
\* percent (about 4.17), from scenario 1.
C10_ExampleProfitAndRoi ==
    /\ exampleScenario =>
          /\ roiResult.locals.netProfit = 4160000
          /\ roiResult.locals.netProfit =
                 roiResult.locals.maxContracts * Dollar - roiResult.locals.totalInvested
          /\ roiResult.roi = [num |-> 25, den |-> 6]
    /\ exampleBest =>
          /\ roiResult.best.roi = [num |-> 25, den |-> 6]
          /\ RatLeq([num |-> 416, den |-> 100], roiResult.best.roi)
          /\ RatLeq(roiResult.best.roi, [num |-> 417, den |-> 100])
          /\ roiResult.best.scenario = 1

\* C10 witness: calculateBestRoi evaluated on the example, an unknown venue
\* against Kalshi with Maker orders.
C10_Witness ==
    /\ exampleBest
    /\ roiArgs.platformA = "Other" /\ roiArgs.platformB = "Kalshi"
    /\ roiResult.best.roi.num > 0

----------------------------------------------------------------------------
(* Properties of the fee model *)

feeDone == roiResult.fn = "calculatePlatformFee"

\* The venues the fee model supports, under the names of the platform lists
\* of the pages.
SupportedVenues ==
    {"Kalshi", "Polymarket", "PredictIt", "IBKR", "IBKR Forecast", "IBKR ForecastEx"}

\* The gross ROI of a scenario in percent: n * (1 - baseCost) / (n * baseCost)
\* * 100 for any n > 0, baseCost in cents.
grossRoi(baseCost) == Rat((100 - baseCost) * 100, baseCost)

\* C11: with order type Maker the fee of every supported venue is 0 for
\* every price and contract count, so the ROI calculateBestRoi returns for
\* Maker is the gross, fee-free ROI of the scenario it found best.
C11_MakerIsFeeFree ==
    (/\ bestDone
     /\ roiArgs.mode = "Maker"
     /\ roiArgs.platformA \in SupportedVenues
     /\ roiArgs.platformB \in SupportedVenues
     /\ roiResult.best.roi # RatZero)
    => /\ roiResult.best.feeA = 0
       /\ roiResult.best.feeB = 0
       /\ roiResult.best.roi =
            grossRoi(IF roiResult.best.scenario = 1
                     THEN roiArgs.priceA + (100 - roiArgs.priceB)
                     ELSE (100 - roiArgs.priceA) + roiArgs.priceB)

\* C12: the fee of Kalshi is 0.07 * price * (1 - price) * contracts for Taker
\* and 0 for Maker, on both pages, for every price and contract count; at
\* price 0.5 and 10 contracts it is 0.175 for Taker and 0 for Maker.
C12_SlidingScaleFee ==
    (feeDone /\ toLowerCase(roiArgs.platform) = "kalshi")
    => /\ roiArgs.mode = "Taker" =>
              \* 0.07 * (p / 100) * ((100 - p) / 100) * n dollars, in micro-dollars
              roiResult.fee = 7 * roiArgs.price * (100 - roiArgs.price) * roiArgs.contracts
       /\ roiArgs.mode = "Maker" => roiResult.fee = 0
       /\ (roiArgs.price = 50 /\ roiArgs.contracts = 10 /\ roiArgs.mode = "Taker")
              => roiResult.fee * 1000 = 175 * Dollar

\* C12 witness: the Taker fee of 10 Kalshi contracts at 0.5 has been computed
\* and is not 0.
C12_Witness ==
    /\ feeDone
    /\ roiArgs.platform = "Kalshi"
    /\ roiArgs.price = 50 /\ roiArgs.contracts = 10 /\ roiArgs.mode = "Taker"
    /\ roiResult.fee > 0

----------------------------------------------------------------------------
(* Properties of the similarity scorer *)

simDone == simResult.fn = "calculateSimilarity"

\* Entry k of the event table matches the title: every regular expression of
\* the entry does.
entryMatches(k, title) ==
    allMatch(SPECIFIC_EVENT_PATTERNS[k].patterns, toLowerCase(title))

\* The entries of the event table that match both titles.
commonEntries(titleA, titleB) ==
    {k \in 1 .. Len(SPECIFIC_EVENT_PATTERNS) :
        entryMatches(k, titleA) /\ entryMatches(k, titleB)}

partyPair ==
    \E rest \in {m \o d : m \in TitleSubjects, d \in TitleDates} :
        {simArgs.a.title, simArgs.b.title} = {"Republican " \o rest, "Democrat " \o rest}

\* C5: two titles whose tokens are identical except that one carries a
\* republican term and the other a democrat term score 0.
C5_PartyConflictScoresZero ==
    (simDone /\ partyPair) => simResult.result.score = 0

\* C8: the score of calculateSimilarity is the same in both argument orders,
\* so it is 0 in one order if and only if it is 0 in the other.
C8_SymmetricScore ==
    simDone =>
        LET swapped == calculateSimilarity(simArgs.b, simArgs.a)
        IN  /\ swapped.score = simResult.result.score
            /\ (swapped.score = 0) <=> (simResult.result.score = 0)

\* C8 witness: two different titles with token sets of different sizes that
\* score above 0 through the token matching.
C8_Witness ==
    /\ simDone
    /\ simArgs.a.title # simArgs.b.title
    /\ Len(extractTokens(simArgs.a.title)) < Len(extractTokens(simArgs.b.title))
    /\ commonEntries(simArgs.a.title, simArgs.b.title) = {}
    /\ simResult.result.score > 0

----------------------------------------------------------------------------
(* Properties of the opportunity finder *)

arbDone == arbResult.fn = "findArbitrageOpportunities"

\* The opportunities a finished call returned.
returned == {arbResult.opportunities[k] : k \in 1 .. Len(arbResult.opportunities)}

\* C2: every opportunity findArbitrageOpportunities returns has a combined
\* pre-fee cost, the YES price of its marketA plus the NO price of its
\* marketB, strictly below 1: no scenario that costs 1 or more is emitted.
C2_CombinedCostBelowOne ==
    arbDone =>
        \A o \in returned :
            /\ o.combinedYesCost < One
            /\ o.combinedYesCost = o.marketA.yesPrice + o.marketB.noPrice

\* C2 witness: a pair was emitted in one direction while its other scenario,
\* which costs 1 or more, was not.
C2_Witness ==
    /\ arbDone
    /\ \E o \in returned :
           /\ o.marketB.yesPrice + o.marketA.noPrice >= One
           /\ \A other \in returned :
                  ~(other.marketA = o.marketB /\ other.marketB = o.marketA)

\* C3: every opportunity findArbitrageOpportunities returns pairs listings of
\* two different platforms.
C3_DifferentPlatforms ==
    arbDone => \A o \in returned : o.marketA.platform # o.marketB.platform

\* C3 witness: the call was handed two listings of one platform that share a
\* bucket and an event label, and returned an opportunity.
C3_Witness ==
    /\ arbDone
    /\ returned # {}
    /\ \E i, j \in 1 .. Len(arbArgs.markets) :
           /\ i # j
           /\ arbArgs.markets[i].platform = arbArgs.markets[j].platform
           /\ Range(keysOf(arbArgs.markets[i])) \cap Range(keysOf(arbArgs.markets[j])) # {}
           /\ commonEntries(arbArgs.markets[i].title, arbArgs.markets[j].title) # {}

\* The two titles are equal except for a year of the tracked range, 2024 to
\* 2039, that stands at the same place in both.
yearOnlyDifference(titleA, titleB) ==
    /\ Len(titleA) = Len(titleB)
    /\ \E i \in 1 .. (Len(titleA) - 3) :
           /\ yearEnd(toLowerCase(titleA), i) # 0
           /\ yearEnd(toLowerCase(titleB), i) # 0
           /\ SubSeq(titleA, i, i + 3) # SubSeq(titleB, i, i + 3)
           /\ SubSeq(titleA, 1, i - 1) = SubSeq(titleB, 1, i - 1)
           /\ SubSeq(titleA, i + 4, Len(titleA)) = SubSeq(titleB, i + 4, Len(titleB))

\* C6: two listings whose titles are identical except for the year score 0,
\* and findArbitrageOpportunities returns no opportunity that pairs them.
C6_YearOnlyDifferenceNeverPaired ==
    arbDone =>
        /\ \A i, j \in 1 .. Len(arbArgs.markets) :
               yearOnlyDifference(arbArgs.markets[i].title, arbArgs.markets[j].title)
                   => calculateSimilarity(arbArgs.markets[i], arbArgs.markets[j]).score = 0
        /\ \A o \in returned : ~yearOnlyDifference(o.marketA.title, o.marketB.title)

\* The ROIs of two opportunities differ by more than 0.1.
roiApart(a, b) == exceedsTenth(a.roi, b.roi) \/ exceedsTenth(b.roi, a.roi)

\* C13: in the returned list, for every two entries at positions i < j: if
\* their ROIs differ by more than 0.1 the entry at i has the higher ROI,
\* otherwise its match score is at least that of the entry at j.
C13_OrderedByRoiThenScore ==
    arbDone =>
        \A i, j \in 1 .. Len(arbResult.opportunities) :
            i < j =>
                LET first == arbResult.opportunities[i]
                    second == arbResult.opportunities[j]
                IN  IF roiApart(first, second)
                    THEN exceedsTenth(first.roi, second.roi)
                    ELSE first.matchScore >= second.matchScore

\* The listings a bucket retains after the volume sort and the size cap, for
\* the buckets that survive the platform test.
retained(bucket) ==
    IF Cardinality({bucket.matchingMarkets[i].platform :
                       i \in 1 .. Len(bucket.matchingMarkets)}) < 2
    THEN {}
    ELSE Range(sortedMarkets(bucket.matchingMarkets))

\* The pairs of listings of different venues that some surviving bucket
\* retains together.
crossVenuePairs(markets) ==
    {pair \in UNION {{{x, y} : x, y \in retained(keywordIndex(markets)[k])} :
                        k \in 1 .. Len(keywordIndex(markets))} :
        \E x, y \in pair : x.platform # y.platform}

\* How many times the call scored the two listings of pair.
timesScored(pair) ==
    Cardinality({k \in 1 .. Len(arbResult.scored) :
                    {arbResult.scored[k].a, arbResult.scored[k].b} = pair})

\* C14: every pair of listings of different venues that a surviving bucket
\* retains together is scored by calculateSimilarity exactly once in a call,
\* whatever the ids of the listings.
C14_EveryCrossVenuePairScoredOnce ==
    arbDone =>
        \A pair \in crossVenuePairs(arbArgs.markets) : timesScored(pair) = 1

\* C15: a pair whose similarity score is 0 never reaches the cost stage: no
\* returned opportunity has matchScore 0, and each carries the score of a
\* pair that was scored, which is not 0.
C15_NoZeroScoreOpportunity ==
    arbDone =>
        \A o \in returned :
            /\ o.matchScore # 0
            /\ \E k \in 1 .. Len(arbResult.scored) :
                   /\ {arbResult.scored[k].a, arbResult.scored[k].b}
                          = {o.marketA, o.marketB}
                   /\ calculateSimilarity(arbResult.scored[k].a,
                                          arbResult.scored[k].b).score = o.matchScore

\* C15 witness: the call scored a pair 0 of which one scenario costs less
\* than 1 and clears minRoi, and returned no opportunity for it.
C15_Witness ==
    /\ arbDone
    /\ arbArgs.minRoi <= 0
    /\ \E k \in 1 .. Len(arbResult.scored) :
           /\ calculateSimilarity(arbResult.scored[k].a, arbResult.scored[k].b).score = 0
           /\ arbResult.scored[k].a.yesPrice + arbResult.scored[k].b.noPrice < One
           /\ \A o \in returned :
                  {o.marketA, o.marketB} # {arbResult.scored[k].a, arbResult.scored[k].b}

\* The two listings of the Fed example.
fedKalshi == CHOOSE m \in FedFeed : m.id = "KXFEDCUT"

fedPolymarket == CHOOSE m \in FedFeed : m.id = "253593"

\* The call was handed exactly the two listings of the Fed example, in
\* either order, and minRoi 0.
fedExample ==
    /\ arbArgs.markets \in {<<fedKalshi, fedPolymarket>>, <<fedPolymarket, fedKalshi>>}
    /\ arbArgs.minRoi = 0

\* C16: given exactly {Kalshi, "Fed Rate Cut in 2025", yes 0.40, no 0.60} and
\* {Polymarket, "Will the Fed cut rates in 2025?", yes 0.50, no 0.50} and
\* minRoi 0, findArbitrageOpportunities matches them and returns exactly one
\* opportunity, YES on Kalshi and NO on Polymarket, with combined cost 0.90
\* and ROI 0.10 / 0.90 * 100.
C16_FedExample ==
    (arbDone /\ fedExample)
    => /\ Len(arbResult.opportunities) = 1
       /\ arbResult.opportunities[1].marketA = fedKalshi
       /\ arbResult.opportunities[1].marketB = fedPolymarket
       /\ arbResult.opportunities[1].combinedYesCost * 100 = 90 * One
       /\ arbResult.opportunities[1].roi = Rat(10 * 100, 90)
       /\ arbResult.opportunities[1].matchScore >= minSimilarity

\* C16 witness: the call on the Fed example has returned an opportunity.
C16_Witness ==
    /\ arbDone
    /\ fedExample
    /\ fedKalshi.yesPrice * 100 = 40 * One /\ fedKalshi.noPrice * 100 = 60 * One
    /\ fedPolymarket.yesPrice * 100 = 50 * One /\ fedPolymarket.noPrice * 100 = 50 * One
    /\ arbResult.opportunities # <<>>

----------------------------------------------------------------------------
(* Further properties of the similarity scorer *)

\* The two listings scored have one and the same title.
sameTitle == simArgs.a.title = simArgs.b.title

\* C17 as stated: two listings with identical titles score 100, for every
\* title.
C17_AsStated ==
    (simDone /\ sameTitle) => simResult.result.score = 100

\* C17, amended: two listings with identical titles score 100 when the title
\* matches no entry of the event table and keeps at least one token; they
\* score 95 when the title matches an entry of the event table, and 0 when
\* it keeps no token.
C17_IdenticalTitles ==
    (simDone /\ sameTitle)
    => simResult.result.score =
           IF commonEntries(simArgs.a.title, simArgs.b.title) # {} THEN 95
           ELSE IF extractTokens(simArgs.a.title) = <<>> THEN 0
           ELSE 100

\* C17 witness: a title with a party, a state and a year, outside the event
\* table, scored against itself.
C17_Witness ==
    /\ simDone
    /\ sameTitle
    /\ commonEntries(simArgs.a.title, simArgs.b.title) = {}
    /\ extractEntities(simArgs.a.title).party # Null
    /\ extractEntities(simArgs.a.title).years # {}
    /\ extractEntities(simArgs.a.title).states # {}
    /\ simResult.result.score = 100

\* The numeric targets of a title: its numbers that are not years.
targets(title) == extractEntities(title).numbers \ extractEntities(title).years

\* C20: two titles with a token Jaccard similarity of at least 0.25 and no
\* shared event label whose numeric targets differ score 0, whatever other
\* tokens, such as a year, they have in common.
C20_DifferentTargetsScoreZero ==
    (/\ simDone
     /\ commonEntries(simArgs.a.title, simArgs.b.title) = {}
     /\ RatLeq([num |-> 1, den |-> 4],
               jaccardSimilarity(extractTokens(simArgs.a.title),
                                 extractTokens(simArgs.b.title)))
     /\ disjointSignals(targets(simArgs.a.title), targets(simArgs.b.title)))
    => simResult.result.score = 0

----------------------------------------------------------------------------
(* Properties of the market retrieval *)

\* fetchAllMarkets returned after asking the three venues.
fetchDone == fetchState.pc = "returned" /\ ~fetchState.fromCache

\* The three fetchers of the last call.
Venues == {"kalshi", "polymarket", "predictit"}

\* The venues whose retrieval failed in the last call.
failedVenues == {v \in Venues : fetchState[v].failure # "none"}

\* The upstream name of a venue.
upstream(v) ==
    IF v = "kalshi" THEN "Kalshi"
    ELSE IF v = "polymarket" THEN "Polymarket" ELSE "PredictIt"

\* The listings of the first n pages of a venue.
RECURSIVE pagesUpTo(_, _)
pagesUpTo(platform, n) ==
    IF n = 0 THEN <<>> ELSE pagesUpTo(platform, n - 1) \o pageOf(platform, n)

\* The listings a venue answered with before its retrieval ended, under the
\* query of the call.
answered(v) ==
    filtered(pagesUpTo(upstream(v), fetchState[v].pageCount), fetchState.query)

\* C18 as stated: when the retrieval from one venue fails, fetchAllMarkets
\* returns the listings of the two other venues and no listing of the
\* failed venue.
C18_AsStated ==
    (fetchDone /\ Cardinality(failedVenues) = 1)
    => /\ \A v \in failedVenues : fetchState[v].result = <<>>
       /\ fetchState.returned =
              allOf([v \in Venues |->
                        IF v \in failedVenues THEN <<>> ELSE answered(v)])

\* C18, amended: fetchAllMarkets returns, for every venue that did not
\* fail, the listings it answered with, and for a venue that failed nothing
\* when an exception ended its retrieval, and the pages it answered with
\* before the failure when an answer that is not ok or the exhausted retries
\* ended it (which is nothing when the first request failed).
C18_FailedVenueLeavesTheOthers ==
    fetchDone
    => fetchState.returned =
           allOf([v \in Venues |->
                     IF fetchState[v].failure = "exception" THEN <<>>
                     ELSE answered(v)])

\* C18 witness: Polymarket failed on its second page, once with an answer
\* that is not ok, the two other venues answered, and the call returned
\* their listings and the first page of Polymarket.
C18_Witness ==
    /\ fetchDone
    /\ failedVenues = {"polymarket"}
    /\ fetchState.polymarket.pageCount = 1
    /\ fetchState.polymarket.failure = "httpError"
    /\ fetchState.kalshi.result # <<>>
    /\ fetchState.predictit.result # <<>>
    /\ Len(fetchState.returned) =
           Len(fetchState.kalshi.result) + Len(fetchState.predictit.result)
           + Len(pageOf("Polymarket", 1))

----------------------------------------------------------------------------
(* Termination of the contract search *)

\* C19: the decrementing search of calculateScenarioRoi and calculateBestRoi
\* terminates for every venue pair, order type and investment and every
\* pair of leg prices in [0, 1] whose sum is below 1, a sum of 0 included:
\* a call with such legs returns, and so does calculateBestRoi when the legs
\* of its first scenario are such a pair (YES prices 0 and 1 make them 0
\* and 0).
C19_SearchTerminates ==
    /\ (/\ roiArgs # Idle /\ roiResult = Idle
        /\ roiArgs.priceA + roiArgs.priceB < 100)
       => ENABLED ScenarioRoi
    /\ (/\ roiArgs # Idle /\ roiResult = Idle
        /\ roiArgs.priceA + (100 - roiArgs.priceB) < 100)
       => ENABLED BestRoi

----------------------------------------------------------------------------
(* The strict checks and the threshold of the similarity scorer *)

\* Both sets hold something and nothing in common.
bothDisjoint(setA, setB) == setA # {} /\ setB # {} /\ setA \cap setB = {}

\* The names the two titles have in common.
commonNames ==
    Range(extractEntities(simArgs.a.title).names)
        \cap Range(extractEntities(simArgs.b.title).names)

\* C21: two titles that share no event label score 0 when both have a state
\* and no state in common, or both have a time frame and no time frame in
\* common, whatever tokens and names they share.
C21_DisjointStatesOrTimeFramesScoreZero ==
    (/\ simDone
     /\ commonEntries(simArgs.a.title, simArgs.b.title) = {}
     /\ \/ bothDisjoint(extractEntities(simArgs.a.title).states,
                        extractEntities(simArgs.b.title).states)
        \/ bothDisjoint(extractEntities(simArgs.a.title).timeFrames,
                        extractEntities(simArgs.b.title).timeFrames))
    => simResult.result = [score |-> 0, reason |-> ""]

\* C21 witness: two titles with the same name, the same tokens and the same
\* year, one of the first quarter and one of the second, score 0.
C21_Witness ==
    /\ simDone
    /\ commonEntries(simArgs.a.title, simArgs.b.title) = {}
    /\ extractEntities(simArgs.a.title).timeFrames = {"q1"}
    /\ extractEntities(simArgs.b.title).timeFrames = {"q2"}
    /\ extractEntities(simArgs.a.title).states = {}
    /\ commonNames # {}
    /\ extractTokens(simArgs.a.title) = extractTokens(simArgs.b.title)
    /\ simResult.result.score = 0

\* C22: two titles that share no event label and no name score 0 or a score
\* of 60 to 100, never a score of 1 to 59.
C22_ZeroOrAtLeastSixty ==
    (/\ simDone
     /\ commonEntries(simArgs.a.title, simArgs.b.title) = {}
     /\ commonNames = {})
    => \/ simResult.result.score = 0
       \/ simResult.result.score \in 60 .. 100

\* C22 witness: two titles without a common name that pass every strict
\* check with a Jaccard similarity of one half, below the threshold, score 0.
C22_Witness ==
    /\ simDone
    /\ commonEntries(simArgs.a.title, simArgs.b.title) = {}
    /\ commonNames = {}
    /\ ~partyConflict(extractEntities(simArgs.a.title),
                      extractEntities(simArgs.b.title))
    /\ \A f \in {"states", "timeFrames", "years", "numbers"} :
           ~bothDisjoint(extractEntities(simArgs.a.title)[f],
                         extractEntities(simArgs.b.title)[f])
    /\ jaccardSimilarity(extractTokens(simArgs.a.title),
                         extractTokens(simArgs.b.title)) = [num |-> 1, den |-> 2]
    /\ simResult.result.score = 0

----------------------------------------------------------------------------
(* Properties of the market cache *)

\* The step is a call of fetchAllMarkets up to its await.
callMade == fetchState'.made = fetchState.made + 1

\* The step is the return of a pending call with or without a query.
callSettled(query) == fetchState'.pending[query] = fetchState.pending[query] - 1

\* What a call served from the cache returns.
servedFromCache ==
    [query |-> FALSE, fromCache |-> TRUE, outcomes |-> allOk,
     returned |-> fetchState.marketCache.kalshi
                  \o fetchState.marketCache.polymarket
                  \o fetchState.marketCache.predictit]

\* C23: a call of fetchAllMarkets without a query and with forceRefresh
\* false returns the cached lists and sends no fetcher out if and only if
\* now - lastFetched is below 5 minutes; every other call (stale cache,
\* forceRefresh or a query) sends the three fetchers out.
C23_CacheServedIffFresh ==
    [][callMade =>
        IF /\ ~fetchState'.args.query
           /\ ~fetchState'.args.forceRefresh
           /\ fetchState.clock - fetchState.marketCache.lastFetched < 5
        THEN /\ fetchState'.last = servedFromCache
             /\ fetchState'.pending = fetchState.pending
             /\ fetchState'.marketCache = fetchState.marketCache
        ELSE /\ fetchState'.last = fetchState.last
             /\ fetchState'.pending =
                    [fetchState.pending EXCEPT ![fetchState'.args.query] = @ + 1]
             /\ fetchState'.marketCache = fetchState.marketCache]_vars

\* C23 witness: a call without a query, not forced, was served four minutes
\* after the refresh that filled the cache.
C23_Witness ==
    /\ fetchState.made >= 2
    /\ fetchState.args = [query |-> FALSE, forceRefresh |-> FALSE]
    /\ fetchState.last.fromCache
    /\ fetchState.last.returned # <<>>
    /\ fetchState.clock - fetchState.marketCache.lastFetched = 4

\* Every listing of the list came with the listing of its page that the
\* query would have dropped.
unfiltered(listings) ==
    \A k \in 1 .. Len(listings) :
        \E j \in 1 .. Len(listings) :
            /\ listings[j].platform = listings[k].platform
            /\ listings[j].page = listings[k].page
            /\ ~listings[j].matches

\* C24: in any interleaving of calls, a call made with a query leaves
\* marketCache unchanged, its three lists and lastFetched, and a call without
\* a query that is served from the cache returns no query-filtered listings.
C24_QueriedCallLeavesCache ==
    [][/\ callSettled(TRUE)
          => fetchState'.marketCache = fetchState.marketCache
       /\ (callMade /\ fetchState'.pending = fetchState.pending)
          => unfiltered(fetchState'.last.returned)]_vars

\* C24 witness: a call with a query returned its filtered listings while
\* the cache holds the unfiltered lists and the stamp of a refresh.
C24_Witness ==
    /\ fetchState.last.query
    /\ ~fetchState.last.fromCache
    /\ fetchState.last.returned # <<>>
    /\ ~unfiltered(fetchState.last.returned)
    /\ fetchState.marketCache.lastFetched >= StartTime
    /\ fetchState.marketCache.kalshi # <<>>
    /\ unfiltered(fetchState.marketCache.kalshi)
    /\ fetchState.pending = [q \in BOOLEAN |-> 0]

\* The listings a refresh stores for a venue as C29 states it: every page
\* when its fetcher did not fail, nothing when it failed.
storedAsStated(platform, outcome) ==
    IF outcome # "ok" THEN <<>>
    ELSE IF platform = "PredictIt" THEN pageOf(platform, 1)
    ELSE pageOf(platform, 1) \o pageOf(platform, 2)

\* The listings a refresh stores for a venue: every page when its fetcher
\* did not fail, the first page when a later page failed, nothing when the
\* fetcher returned [].
stored(platform, outcome) ==
    IF outcome = "none" THEN <<>>
    ELSE IF outcome = "partial" \/ platform = "PredictIt" THEN pageOf(platform, 1)
    ELSE pageOf(platform, 1) \o pageOf(platform, 2)

\* A call without a query, not forced, made less than 5 minutes after the
\* stamp of the cache returns the lists of the cache.
servedWhileFresh ==
    (/\ callMade
     /\ ~fetchState'.args.query
     /\ ~fetchState'.args.forceRefresh
     /\ fetchState.clock - fetchState.marketCache.lastFetched < 5)
    => fetchState'.last = servedFromCache

\* C29 as stated: a refresh without a query replaces the whole cache and
\* stamps it, also when a venue fetch failed; the failed venue's cached
\* listings are replaced by an empty list, and calls without a query, not
\* forced, return the cache during the next 5 minutes.
C29_AsStated ==
    [][/\ callSettled(FALSE)
          => fetchState'.marketCache =
                 [kalshi |-> storedAsStated("Kalshi", fetchState'.last.outcomes.kalshi),
                  polymarket |->
                      storedAsStated("Polymarket", fetchState'.last.outcomes.polymarket),
                  predictit |->
                      storedAsStated("PredictIt", fetchState'.last.outcomes.predictit),
                  lastFetched |-> fetchState.clock]
       /\ servedWhileFresh]_vars

\* C29, amended: a refresh without a query replaces the whole cache and
\* stamps it, also when a venue fetch failed; the failed venue's cached
\* listings are replaced by what its fetcher returned, the empty list after
\* an exception or a failed first request and the pages gathered before the
\* failure otherwise, and calls without a query, not forced, return the
\* cache during the next 5 minutes.
C29_RefreshReplacesTheCache ==
    [][/\ callSettled(FALSE)
          => fetchState'.marketCache =
                 [kalshi |-> stored("Kalshi", fetchState'.last.outcomes.kalshi),
                  polymarket |->
                      stored("Polymarket", fetchState'.last.outcomes.polymarket),
                  predictit |->
                      stored("PredictIt", fetchState'.last.outcomes.predictit),
                  lastFetched |-> fetchState.clock]
       /\ servedWhileFresh]_vars

\* C29 witness: the third call was served from a cache that a refresh
\* stamped less than 5 minutes ago and that holds no listing of Kalshi and
\* the listings of the two other venues; it returned no listing of Kalshi.
C29_Witness ==
    /\ fetchState.made = 3
    /\ fetchState.last.fromCache
    /\ fetchState.marketCache.lastFetched >= StartTime
    /\ fetchState.clock - fetchState.marketCache.lastFetched < 5
    /\ fetchState.marketCache.kalshi = <<>>
    /\ fetchState.marketCache.polymarket # <<>>
    /\ fetchState.marketCache.predictit # <<>>
    /\ fetchState.last.returned # <<>>
    /\ \A k \in 1 .. Len(fetchState.last.returned) :
           fetchState.last.returned[k].platform # "Kalshi"

----------------------------------------------------------------------------
(* Properties of fetchWithRetry *)

\* The request met a 429 or an exception.
failedRequest(outcome) == outcome = "429" \/ outcome = "threw"

\* C25: fetchWithRetry issues at most maxRetries requests, returns the
\* first response whose status is not 429 and issues no request after it,
\* and returns null if and only if every one of the maxRetries requests met
\* a 429 or an exception.
C25_RetryUntilResponse ==
    LET n == Len(fetchState.requests)
    IN  /\ n <= fetchState.maxRetries
        /\ \A k \in 1 .. n - 1 : failedRequest(fetchState.requests[k])
        /\ (n > 0 /\ ~failedRequest(fetchState.requests[n]))
           => /\ fetchState.pc = "returned"
              /\ fetchState.result = fetchState.requests[n]
        /\ (fetchState.pc = "returned" /\ fetchState.result # "null")
           => /\ fetchState.result # "429"
              /\ fetchState.result = fetchState.requests[n]
        /\ (fetchState.pc = "returned" /\ fetchState.result = "null")
           <=> /\ n = fetchState.maxRetries
               /\ \A k \in 1 .. n : failedRequest(fetchState.requests[k])
               /\ fetchState.pc # "wait"

\* C25 witness: a call with the default of three attempts met a 429 and an
\* exception and returned the response of its third request.
C25_Witness ==
    /\ fetchState.maxRetries = maxRetries
    /\ fetchState.pc = "returned"
    /\ fetchState.requests = <<"429", "threw", "200">>
    /\ fetchState.result = "200"

----------------------------------------------------------------------------
(* Properties of the market browser *)

\* C26: after any sequence of platform toggles, every opportunity the
\* market browser lists involves only platforms that are enabled.
C26_OnlyEnabledPlatformsListed ==
    ~browser.isScanning
    => \A opp \in browser.opportunities :
           /\ opp[1] \in Range(browser.enabledPlatforms)
           /\ opp[2] \in Range(browser.enabledPlatforms)

\* C30: every scan that sets isScanning to true is followed by isScanning
\* being false again, whether the request succeeds, is answered with a
\* status that is not ok or fails: once no scan is under way the indicator
\* is off.
C30_ScanningEndsWithTheScan ==
    browser.requests = {} => ~browser.isScanning

----------------------------------------------------------------------------
(* The best of the two scenarios *)

\* calculateScenarioRoi of scenario 1 (YES on A, NO on B) and of scenario 2
\* (NO on A, YES on B) for the arguments of the call.
scenarioRoi(k) ==
    IF k = 1
    THEN calculateScenarioRoi(roiArgs.platformA, roiArgs.priceA, roiArgs.platformB,
                              100 - roiArgs.priceB, roiArgs.investment, roiArgs.mode)
    ELSE calculateScenarioRoi(roiArgs.platformA, 100 - roiArgs.priceA,
                              roiArgs.platformB, roiArgs.priceB, roiArgs.investment,
                              roiArgs.mode)

\* The call was made with YES prices in (0, 1) and a positive investment.
insideUnitPrices ==
    /\ roiArgs.priceA \in 1 .. 99
    /\ roiArgs.priceB \in 1 .. 99
    /\ roiArgs.investment > 0

\* C27: for YES prices in (0, 1) and a positive investment calculateBestRoi
\* returns a roi of at least 0, also when the fees push the ROI of the only
\* scenario below unit cost under zero, and the scenario it returns is one
\* whose calculateScenarioRoi is the returned roi, scenario 1 on a tie.
C27_BestRoiNotNegative ==
    (bestDone /\ insideUnitPrices)
    => /\ RatLeq(RatZero, roiResult.best.roi)
       /\ roiResult.best.scenario \in {1, 2}
       /\ scenarioRoi(roiResult.best.scenario) = roiResult.best.roi
       /\ scenarioRoi(1) = scenarioRoi(2) => roiResult.best.scenario = 1

\* C27 witness: the fees push the ROI of scenario 1 below zero, and the call
\* returns scenario 2 and its ROI of 0.
C27_Witness ==
    /\ bestDone
    /\ insideUnitPrices
    /\ roiArgs.priceA + (100 - roiArgs.priceB) < 100
    /\ scenarioRoi(1).num < 0
    /\ roiResult.best.scenario = 2
    /\ roiResult.best.roi = RatZero

----------------------------------------------------------------------------
(* The fee functions of the two pages *)

\* The platform names of the PLATFORMS lists of the two pages.
OfferedPlatforms ==
    {"Kalshi", "Polymarket", "PredictIt", "IBKR Forecast", "IBKR ForecastEx"}

\* C28: the fee function of the calculator page and the fee function of the
\* Sentinel page return the same amount for every platform name of either
\* page's platform list, every price in [0, 1], every contract count and
\* both order types.
C28_PagesAgreeOnFees ==
    (feeDone /\ roiArgs.platform \in OfferedPlatforms)
    => roiResult.fee =
           IF roiResult.page = "sentinel"
           THEN calculatorPlatformFee(roiArgs.platform, roiArgs.price,
                                      roiArgs.contracts, roiArgs.mode)
           ELSE calculatePlatformFee(roiArgs.platform, roiArgs.price,
                                     roiArgs.contracts, roiArgs.mode)

====
